---- MODULE Spec2Model ----
(***************************************************************************)
(* Model of the SPC rule engine of diegosilvacaelux/spc:                   *)
(*   spc/nelson_rules.py  the eight Nelson rules (pandas Series pipelines) *)
(*   spc/metrics.py       check_oos                                        *)
(*   spc/processor.py     SpcDataProcessor._check_nelson                   *)
(* A pandas Series is a sequence; a DataFrame is a function from column    *)
(* names to Series.  A missing value (None / NaN) is the empty tuple and a *)
(* present value v is the one-element tuple <<v>>, so that the operations  *)
(* that introduce or consume missing values (shift, rolling with           *)
(* min_periods, diff, replace, fillna, astype(bool), isin, comparison with *)
(* None) are modelled by what pandas does with them.                       *)
(***************************************************************************)
EXTENDS Integers, Sequences, FiniteSets, TLC

VARIABLES df_subgroups, cl_x, ucl_x, lcl_x, usl, lsl, test_ooc, pc

VARIABLES df_processed, invalid_groups, highest_frequnecy_subgroup_size

VARIABLES process_sigma, cp, cpk, cl_v, ucl_v, lcl_v, ooc_points_v

VARIABLES variability_chart_type, central_tendency_chart_type, stdout

VARIABLES dataconfig, timeconfig, output_prefix, excel, df_raw, files, calls

VARIABLES sys_argv, input_file_paths, config_files_to_process, file_path, config_item

(* the attributes written by _group_data                                   *)
group_fields == <<df_processed, invalid_groups, highest_frequnecy_subgroup_size>>

(* the attributes written by _calculate_metrics besides the three central  *)
(* limits                                                                  *)
metric_fields ==
    <<process_sigma, cp, cpk, cl_v, ucl_v, lcl_v, ooc_points_v,
      variability_chart_type, central_tendency_chart_type>>

(* the configuration of a run, the sheet that read_excel finds (excel),    *)
(* the raw table, the files of the working directory and the sequence of   *)
(* the calls made so far                                                   *)
run_fields == <<dataconfig, timeconfig, output_prefix, excel, df_raw, files, calls>>

(* the command line and the local variables of main                        *)
batch_fields ==
    <<sys_argv, input_file_paths, config_files_to_process, file_path, config_item>>

vars ==
    <<df_subgroups, cl_x, ucl_x, lcl_x, usl, lsl, test_ooc, pc,
      group_fields, metric_fields, stdout, run_fields, batch_fields>>

----------------------------------------------------------------------------
(* Missing values                                                          *)

None == <<>>

NaN == None

Val(v) == <<v>>

(* an attribute that holds no DataFrame yet (self.test_ooc = None)         *)
NoFrame == [c \in {} |-> <<>>]

----------------------------------------------------------------------------
(* pandas / numpy primitives used by the rule functions                    *)

(* Series.shift(k): position i takes the value of position i-k, the first  *)
(* k positions become NaN                                                  *)
shift(s, k) == [i \in 1..Len(s) |-> IF i > k THEN Val(s[i - k]) ELSE NaN]

(* shift of a Series that already holds NaN                                *)
shift_na(s, k) == [i \in 1..Len(s) |-> IF i > k THEN s[i - k] ELSE NaN]

(* Series.fillna(v)                                                        *)
fillna(s, v) == [i \in 1..Len(s) |-> IF s[i] = NaN THEN v ELSE s[i][1]]

(* elementwise != of two Series; NaN != anything is True                   *)
ne(a, b) == [i \in 1..Len(a) |-> (a[i] = NaN) \/ (b[i] = NaN) \/ (a[i] # b[i])]

(* Series > scalar and Series < scalar; a comparison with a missing scalar *)
(* is False for every row                                                  *)
gt(s, scalar) == [i \in 1..Len(s) |-> IF scalar = None THEN FALSE ELSE s[i] > scalar[1]]

lt(s, scalar) == [i \in 1..Len(s) |-> IF scalar = None THEN FALSE ELSE s[i] < scalar[1]]

(* Series.cumsum() of a boolean Series                                     *)
cumsum(b) == [i \in 1..Len(b) |-> Cardinality({j \in 1..i : b[j]})]

(* groupby(groups).cumcount(): 0-based position of the row in its group    *)
cumcount(groups) ==
    [i \in 1..Len(groups) |-> Cardinality({j \in 1..i : groups[j] = groups[i]}) - 1]

(* Series.diff(): NaN for the first row                                    *)
diff(s) == [i \in 1..Len(s) |-> IF i > 1 THEN Val(s[i] - s[i - 1]) ELSE NaN]

(* np.sign                                                                 *)
sign(v) == IF v > 0 THEN 1 ELSE IF v < 0 THEN -1 ELSE 0

(* np.sign(s) followed by .replace({0: np.nan})                            *)
sign_replace0(s) ==
    [i \in 1..Len(s) |-> IF sign(s[i]) = 0 THEN NaN ELSE Val(sign(s[i]))]

(* boolean Series .rolling(window=w, min_periods=w).sum()                  *)
rolling_sum(b, w) ==
    [i \in 1..Len(b) |->
        IF i >= w THEN Val(Cardinality({j \in (i - w + 1)..i : b[j]})) ELSE NaN]

(* .rolling(window=w, min_periods=w).apply(lambda x: x.all(), raw=True)    *)
rolling_all(b, w) ==
    [i \in 1..Len(b) |->
        IF i >= w THEN Val(IF \A j \in (i - w + 1)..i : b[j] THEN 1 ELSE 0) ELSE NaN]

(* boolean Series .rolling(window=w, min_periods=w).max()                  *)
rolling_max(b, w) ==
    [i \in 1..Len(b) |->
        IF i >= w THEN Val(IF \E j \in (i - w + 1)..i : b[j] THEN 1 ELSE 0) ELSE NaN]

(* Series.isin(values): NaN is in no list of numbers                       *)
isin(s, values) == [i \in 1..Len(s) |-> (s[i] # NaN) /\ (s[i][1] \in values)]

(* float Series .astype(bool): numpy casts NaN to True, 0.0 to False       *)
astype_bool(s) == [i \in 1..Len(s) |-> IF s[i] = NaN THEN TRUE ELSE s[i][1] # 0]

(* df_copy[new_column] = False                                             *)
with_column(df, name, series) ==
    [c \in (DOMAIN df) \cup {name} |-> IF c = name THEN series ELSE df[c]]

all_false(n) == [i \in 1..n |-> FALSE]

(* df_copy.loc[mask, new_column] = True                                    *)
loc_set_true(df, mask, name) ==
    [df EXCEPT ![name] = [i \in 1..Len(mask) |-> IF mask[i] THEN TRUE ELSE df[name][i]]]

----------------------------------------------------------------------------
(* spc/nelson_rules.py                                                     *)

(* cl = (ucl + lcl) / 2; return (ucl - cl) / 3.  The limits of the model   *)
(* are integers with ucl - lcl a multiple of 6, where / is exact.          *)
_calculate_sigma(ucl, lcl) ==
    LET cl == (ucl + lcl) \div 2
    IN  (ucl - cl) \div 3

(* nelson_1 with inclusive comparisons (>=, <=) instead of strict ones      *)
nelson_1_inclusive(df, column, ul, ll, new_column) ==
    LET df_copy  == with_column(df, new_column, all_false(Len(df[column])))
        col      == df_copy[column]
        ooc_mask == [i \in 1..Len(col) |->
                        \/ (ul # None /\ col[i] >= ul[1])
                        \/ (ll # None /\ col[i] <= ll[1])]
    IN  loc_set_true(df_copy, ooc_mask, new_column)

nelson_1(df, column, ul, ll, new_column) ==
    LET df_copy  == with_column(df, new_column, all_false(Len(df[column])))
        above    == gt(df_copy[column], ul)
        below    == lt(df_copy[column], ll)
        ooc_mask == [i \in 1..Len(above) |-> above[i] \/ below[i]]
    IN  loc_set_true(df_copy, ooc_mask, new_column)

(* nelson_2 with the comparison above_avg = (column >= cl)                 *)
nelson_2_ge(df, column, cl, new_column) ==
    LET df_copy    == with_column(df, new_column, all_false(Len(df[column])))
        col        == df_copy[column]
        above_avg  == [i \in 1..Len(col) |-> col[i] >= cl]
        above_val  == [i \in 1..Len(col) |-> Val(above_avg[i])]
        groups     == cumsum(ne(above_val, shift(above_avg, 1)))
        count      == cumcount(groups)
        run_length == [i \in 1..Len(col) |-> count[i] + 1]
    IN  loc_set_true(df_copy, [i \in 1..Len(col) |-> run_length[i] >= 9], new_column)

(* nelson_2 that initialises the column 'Rule 1' as well as its own        *)
nelson_2_resets_rule_1(df, column, cl, new_column) ==
    LET df_copy    == with_column(with_column(df, "Rule 1", all_false(Len(df[column]))),
                                  new_column, all_false(Len(df[column])))
        col        == df_copy[column]
        above_avg  == [i \in 1..Len(col) |-> col[i] > cl]
        above_val  == [i \in 1..Len(col) |-> Val(above_avg[i])]
        groups     == cumsum(ne(above_val, shift(above_avg, 1)))
        count      == cumcount(groups)
        run_length == [i \in 1..Len(col) |-> count[i] + 1]
    IN  loc_set_true(df_copy, [i \in 1..Len(col) |-> run_length[i] >= 9], new_column)

nelson_2(df, column, cl, new_column) ==
    LET df_copy    == with_column(df, new_column, all_false(Len(df[column])))
        col        == df_copy[column]
        above_avg  == [i \in 1..Len(col) |-> col[i] > cl]
        above_val  == [i \in 1..Len(col) |-> Val(above_avg[i])]
        groups     == cumsum(ne(above_val, shift(above_avg, 1)))
        count      == cumcount(groups)
        run_length == [i \in 1..Len(col) |-> count[i] + 1]
    IN  loc_set_true(df_copy, [i \in 1..Len(col) |-> run_length[i] >= 9], new_column)

nelson_3(df, column, new_column) ==
    LET df_copy    == with_column(df, new_column, all_false(Len(df[column])))
        col        == df_copy[column]
        diff_sign  == sign_replace0(fillna(diff(col), 0))
        groups     == cumsum(ne(diff_sign, shift_na(diff_sign, 1)))
        count      == cumcount(groups)
        run_length == [i \in 1..Len(col) |-> count[i] + 1]
    IN  loc_set_true(df_copy, [i \in 1..Len(col) |-> run_length[i] >= 6], new_column)

nelson_4(df, column, new_column) ==
    LET df_copy     == with_column(df, new_column, all_false(Len(df[column])))
        col         == df_copy[column]
        direction   == sign_replace0(fillna(diff(col), 0))
        prev        == shift_na(direction, 1)
        alternating == [i \in 1..Len(col) |->
                           /\ direction[i] # NaN
                           /\ prev[i] # NaN
                           /\ direction[i][1] * prev[i][1] = -1]
        alt_sum     == rolling_sum(alternating, 13)
    IN  loc_set_true(df_copy, isin(alt_sum, {13}), new_column)

(* nelson_5 that counts the points beyond 2 sigma of both sides together    *)
nelson_5_mixed(df, column, cl, ucl, lcl, new_column) ==
    LET df_copy      == with_column(df, new_column, all_false(Len(df[column])))
        col          == df_copy[column]
        sigma        == _calculate_sigma(ucl, lcl)
        two_sigma_u  == cl + 2 * sigma
        two_sigma_l  == cl - 2 * sigma
        beyond       == [i \in 1..Len(col) |-> col[i] > two_sigma_u \/ col[i] < two_sigma_l]
        mask         == isin(rolling_sum(beyond, 3), {2, 3})
        df1          == loc_set_true(df_copy, mask, new_column)
        df2          == loc_set_true(df1, fillna(shift(mask, 1), FALSE), new_column)
    IN  loc_set_true(df2, fillna(shift(mask, 2), FALSE), new_column)

nelson_5(df, column, cl, ucl, lcl, new_column) ==
    LET df_copy      == with_column(df, new_column, all_false(Len(df[column])))
        col          == df_copy[column]
        sigma        == _calculate_sigma(ucl, lcl)
        two_sigma_u  == cl + 2 * sigma
        two_sigma_l  == cl - 2 * sigma
        above_2sigma == [i \in 1..Len(col) |-> col[i] > two_sigma_u]
        below_2sigma == [i \in 1..Len(col) |-> col[i] < two_sigma_l]
        check_above  == isin(rolling_sum(above_2sigma, 3), {2, 3})
        check_below  == isin(rolling_sum(below_2sigma, 3), {2, 3})
        mask         == [i \in 1..Len(col) |-> check_above[i] \/ check_below[i]]
        df1          == loc_set_true(df_copy, mask, new_column)
        df2          == loc_set_true(df1, fillna(shift(mask, 1), FALSE), new_column)
    IN  loc_set_true(df2, fillna(shift(mask, 2), FALSE), new_column)

nelson_6(df, column, cl, ucl, lcl, new_column) ==
    LET df_copy      == with_column(df, new_column, all_false(Len(df[column])))
        col          == df_copy[column]
        sigma        == _calculate_sigma(ucl, lcl)
        one_sigma_u  == cl + sigma
        one_sigma_l  == cl - sigma
        above_1sigma == [i \in 1..Len(col) |-> col[i] > one_sigma_u]
        below_1sigma == [i \in 1..Len(col) |-> col[i] < one_sigma_l]
        check_above  == isin(rolling_sum(above_1sigma, 5), {4, 5})
        check_below  == isin(rolling_sum(below_1sigma, 5), {4, 5})
        mask         == [i \in 1..Len(col) |-> check_above[i] \/ check_below[i]]
        df1          == loc_set_true(df_copy, mask, new_column)
        df2          == loc_set_true(df1, fillna(shift(mask, 1), FALSE), new_column)
        df3          == loc_set_true(df2, fillna(shift(mask, 2), FALSE), new_column)
        df4          == loc_set_true(df3, fillna(shift(mask, 3), FALSE), new_column)
    IN  loc_set_true(df4, fillna(shift(mask, 4), FALSE), new_column)

nelson_7(df, column, cl, ucl, lcl, new_column) ==
    LET df_copy     == with_column(df, new_column, all_false(Len(df[column])))
        col         == df_copy[column]
        sigma       == _calculate_sigma(ucl, lcl)
        one_sigma_u == cl + sigma
        one_sigma_l == cl - sigma
        in_zone_c   == [i \in 1..Len(col) |-> col[i] <= one_sigma_u /\ col[i] >= one_sigma_l]
        mask        == astype_bool(rolling_all(in_zone_c, 15))
    IN  loc_set_true(df_copy, mask, new_column)

(* for k in range(8): df_copy.loc[mask.shift(k).fillna(False), c] = True   *)
RECURSIVE flag_shifts(_, _, _, _)
flag_shifts(df, mask, new_column, k) ==
    IF k = 8 THEN df
    ELSE flag_shifts(loc_set_true(df, fillna(shift(mask, k), FALSE), new_column),
                     mask, new_column, k + 1)

nelson_8(df, column, cl, ucl, lcl, new_column) ==
    LET df_copy        == with_column(df, new_column, all_false(Len(df[column])))
        col            == df_copy[column]
        sigma          == _calculate_sigma(ucl, lcl)
        one_sigma_u    == cl + sigma
        one_sigma_l    == cl - sigma
        above          == [i \in 1..Len(col) |-> col[i] > one_sigma_u]
        below          == [i \in 1..Len(col) |-> col[i] < one_sigma_l]
        outside_zone_c == [i \in 1..Len(col) |-> above[i] \/ below[i]]
        all_outside    == astype_bool(rolling_all(outside_zone_c, 8))
        any_above      == astype_bool(rolling_max(above, 8))
        any_below      == astype_bool(rolling_max(below, 8))
        mask           == [i \in 1..Len(col) |->
                              all_outside[i] /\ any_above[i] /\ any_below[i]]
    IN  flag_shifts(df_copy, mask, new_column, 0)

----------------------------------------------------------------------------
(* spc/metrics.py                                                          *)

check_oos(df, column, usl_, lsl_) ==
    LET df_copy  == with_column(df, "OOS", all_false(Len(df[column])))
        above    == gt(df_copy[column], usl_)
        below    == lt(df_copy[column], lsl_)
        oos_mask == [i \in 1..Len(above) |-> above[i] \/ below[i]]
    IN  loc_set_true(df_copy, oos_mask, "OOS")

----------------------------------------------------------------------------
(* spc/processor.py: SpcDataProcessor._check_nelson                        *)

(* the calls of _check_nelson, in the order of the method; the last call   *)
(* of nelson_1 writes the column 'OOS'                                     *)
check_nelson_calls ==
    <<"_check_nelson", "nelson_1", "nelson_2", "nelson_3", "nelson_4", "nelson_5",
      "nelson_6", "nelson_7", "nelson_8", "nelson_1 OOS">>

(* the nine assignments to self.test_ooc, in the order of the method       *)
check_nelson_frame(df, cl, ucl, lcl, usl_, lsl_) ==
    LET t1 == nelson_1(df, "mean", Val(ucl), Val(lcl), "Rule 1")
        t2 == nelson_2(t1, "mean", cl, "Rule 2")
        t3 == nelson_3(t2, "mean", "Rule 3")
        t4 == nelson_4(t3, "mean", "Rule 4")
        t5 == nelson_5(t4, "mean", cl, ucl, lcl, "Rule 5")
        t6 == nelson_6(t5, "mean", cl, ucl, lcl, "Rule 6")
        t7 == nelson_7(t6, "mean", cl, ucl, lcl, "Rule 7")
        t8 == nelson_8(t7, "mean", cl, ucl, lcl, "Rule 8")
    IN  nelson_1(t8, "mean", usl_, lsl_, "OOS")

----------------------------------------------------------------------------
(* Floating-point numbers of the subgroup statistics and of the metrics.   *)
(* A float is Val(q) with q a fraction in lowest terms, [num, den] with    *)
(* den > 0, or NaN.  Sums, differences, products and quotients are exact;  *)
(* the square root is rounded down to two decimals.  An operation on NaN   *)
(* gives NaN and a comparison with NaN is False.                           *)

abs_int(v) == IF v < 0 THEN -v ELSE v

RECURSIVE gcd(_, _)
gcd(a, b) == IF b = 0 THEN a ELSE gcd(b, a % b)

Frac(n, d) ==
    LET g == gcd(abs_int(n), abs_int(d))
        s == IF d < 0 THEN -1 ELSE 1
    IN  [num |-> (s * n) \div g, den |-> (s * d) \div g]

(* float(i) of a whole number i                                            *)
Float(i) == Val(Frac(i, 1))

(* a literal with three decimals, k = 1000 * literal                       *)
Milli(k) == Val(Frac(k, 1000))

(* the numerators of a and b over the least common denominator            *)
over_common(a, b) ==
    LET g == gcd(a.den, b.den)
    IN  [a |-> a.num * (b.den \div g), b |-> b.num * (a.den \div g),
         den |-> (a.den \div g) * b.den]

f_add(a, b) ==
    IF a = NaN \/ b = NaN THEN NaN
    ELSE LET c == over_common(a[1], b[1]) IN Val(Frac(c.a + c.b, c.den))

f_sub(a, b) ==
    IF a = NaN \/ b = NaN THEN NaN
    ELSE LET c == over_common(a[1], b[1]) IN Val(Frac(c.a - c.b, c.den))

f_mul(a, b) ==
    IF a = NaN \/ b = NaN THEN NaN
    ELSE Val(Frac(a[1].num * b[1].num, a[1].den * b[1].den))

(* a / b; every division of the program has a divisor that is not zero     *)
(* (a count of rows, d2 = 1.128, a multiple of a sigma tested positive)    *)
f_div(a, b) ==
    IF a = NaN \/ b = NaN THEN NaN
    ELSE Val(Frac(a[1].num * b[1].den, a[1].den * b[1].num))

f_lt(a, b) == a # NaN /\ b # NaN /\ over_common(a[1], b[1]).a < over_common(a[1], b[1]).b

f_gt(a, b) == f_lt(b, a)

f_le(a, b) == a # NaN /\ b # NaN /\ over_common(a[1], b[1]).a <= over_common(a[1], b[1]).b

f_abs(a) == IF a = NaN THEN NaN ELSE Val(Frac(abs_int(a[1].num), a[1].den))

(* Python min(a, b): b when b < a, else a                                  *)
f_min(a, b) == IF f_lt(b, a) THEN b ELSE a

RECURSIVE isqrt_from(_, _)
isqrt_from(v, r) ==
    LET r2 == (r + (v \div r)) \div 2
    IN  IF r2 >= r THEN r ELSE isqrt_from(v, r2)

(* largest whole number whose square is at most v                          *)
isqrt(v) == IF v = 0 THEN 0 ELSE isqrt_from(v, v)

f_sqrt(a) ==
    IF a = NaN THEN NaN
    ELSE Val(Frac(isqrt((a[1].num * 10000) \div a[1].den), 100))

(* Series.sum() and Series.mean(): missing values are skipped; the mean of *)
(* a Series without a present value is NaN                                 *)
RECURSIVE f_sum_to(_, _)
f_sum_to(s, k) ==
    IF k = 0 THEN Float(0)
    ELSE IF s[k] = NaN THEN f_sum_to(s, k - 1)
    ELSE f_add(f_sum_to(s, k - 1), s[k])

series_sum(s) == f_sum_to(s, Len(s))

series_count(s) == Cardinality({i \in 1..Len(s) : s[i] # NaN})

series_mean(s) ==
    IF series_count(s) = 0 THEN NaN
    ELSE f_div(series_sum(s), Float(series_count(s)))

(* Series.diff() of a Series of floats, without .abs()                     *)
diff_signed(s) ==
    [i \in 1..Len(s) |-> IF i > 1 THEN f_sub(s[i], s[i - 1]) ELSE NaN]

(* Series.diff().abs() of a Series of floats                               *)
diff_abs(s) ==
    [i \in 1..Len(s) |-> IF i > 1 THEN f_abs(f_sub(s[i], s[i - 1])) ELSE NaN]

(* s[mask]: the rows of a Series where the boolean Series is True, in the  *)
(* order of the Series                                                     *)
is_kept(row) == row[1]

boolean_index(s, mask) ==
    LET kept == SelectSeq([i \in 1..Len(s) |-> <<mask[i], s[i]>>], is_kept)
    IN  [j \in 1..Len(kept) |-> kept[j][2]]

(* df[mask], rows renumbered from 1 (a frame of the model has no index     *)
(* labels, so reset_index(drop=True) changes nothing)                      *)
frame_index(df, mask) == [c \in DOMAIN df |-> boolean_index(df[c], mask)]

----------------------------------------------------------------------------
(* df_processed.groupby(grouping_keys, sort=False)[y_col]                  *)
(*     .agg(['mean', 'std', 'min', 'max', 'size']).reset_index()           *)
(* df_processed has the column "y" (the measurement, a float) and either   *)
(* the columns "Date" and "Glass ID" or, in their place, the column "key"  *)
(* that stands for the pair of the two.  A key is NaN when the Glass ID of *)
(* the row is missing: the Date of a cleaned row never is.                 *)
row_keys(df) ==
    IF "key" \in DOMAIN df THEN df["key"]
    ELSE [i \in 1..Len(df["y"]) |->
             IF df["Glass ID"][i] = NaN THEN NaN
             ELSE Val(<<df["Date"][i][1], df["Glass ID"][i][1]>>)]

(* the keys in the order of their first row (sort=False)                   *)
(* groupby has dropna=True by default: a row whose key holds NaN is in no  *)
(* group                                                                   *)
group_keys(keys) ==
    boolean_index(keys, [i \in 1..Len(keys) |->
                            keys[i] # NaN /\ \A j \in 1..(i - 1) : keys[j] # keys[i]])

group_values(df, k) ==
    LET keys == row_keys(df)
    IN  boolean_index(df["y"], [i \in 1..Len(keys) |-> keys[i] = k])

agg_mean(v) == f_div(series_sum(v), Float(Len(v)))

(* sample standard deviation (ddof = 1); NaN for a single value            *)
agg_std(v) ==
    IF Len(v) < 2 THEN NaN
    ELSE LET m  == agg_mean(v)
             sq == [i \in 1..Len(v) |-> f_mul(f_sub(v[i], m), f_sub(v[i], m))]
         IN  f_sqrt(f_div(series_sum(sq), Float(Len(v) - 1)))

agg_min(v) == CHOOSE a \in {v[i] : i \in 1..Len(v)} : \A i \in 1..Len(v) : ~f_lt(v[i], a)

agg_max(v) == CHOOSE a \in {v[i] : i \in 1..Len(v)} : \A i \in 1..Len(v) : ~f_gt(v[i], a)

groupby_agg(df) ==
    LET ks  == group_keys(row_keys(df))
        G   == 1..Len(ks)
        v   == [g \in G |-> group_values(df, ks[g])]
    IN  [key  |-> ks,
         mean |-> [g \in G |-> agg_mean(v[g])],
         std  |-> [g \in G |-> agg_std(v[g])],
         min  |-> [g \in G |-> agg_min(v[g])],
         max  |-> [g \in G |-> agg_max(v[g])],
         size |-> [g \in G |-> Len(v[g])]]

(* size_counts = df['size'].value_counts(): the sizes that can stand first *)
(* in the frequency table are the most frequent ones; the order of sizes   *)
(* of equal frequency is left to the sort of the library                   *)
size_count(sizes, n) == Cardinality({i \in 1..Len(sizes) : sizes[i] = n})

value_counts_first(sizes) ==
    {sizes[i] : i \in {j \in 1..Len(sizes) :
                        \A k \in 1..Len(sizes) :
                            size_count(sizes, sizes[k]) <= size_count(sizes, sizes[j])}}

----------------------------------------------------------------------------
(* spc/chart_constants.py                                                  *)

A3_TABLE ==
    [n \in 2..15 |-> Milli(<<2659, 1954, 1628, 1427, 1287, 1182, 1099, 1032,
                             975, 927, 886, 850, 817, 789>>[n - 1])]

D3_TABLE ==
    [n \in 2..15 |-> Milli(<<0, 0, 0, 0, 0, 76, 136, 184,
                             223, 256, 283, 307, 328, 347>>[n - 1])]

D4_TABLE ==
    [n \in 2..15 |-> Milli(<<3268, 2574, 2282, 2114, 2004, 1924, 1864, 1816,
                             1777, 1744, 1717, 1693, 1672, 1653>>[n - 1])]

B3_TABLE ==
    [n \in 2..15 |-> Milli(<<0, 0, 0, 0, 30, 118, 185, 239,
                             284, 321, 354, 382, 406, 428>>[n - 1])]

B4_TABLE ==
    [n \in 2..15 |-> Milli(<<3267, 2568, 2266, 2089, 1970, 1882, 1815, 1761,
                             1716, 1679, 1646, 1618, 1594, 1572>>[n - 1])]

D2_TABLE == [n \in {2} |-> Milli(1128)]

E2_TABLE == [n \in {2} |-> Milli(2659)]

----------------------------------------------------------------------------
(* spc/metrics.py.  A function that returns gives [ret |-> tuple]; one     *)
(* that raises gives [raise |-> name of the exception].                    *)

Return(t) == [ret |-> t]

Raise(e) == [raise |-> e]

Raises(r) == "raise" \in DOMAIN r

(* calculate_control_limits_x_s with UCL and LCL both CL + A3 * S-bar      *)
calculate_control_limits_x_s_no_lower(df_subgroups_, subgroup_size) ==
    IF subgroup_size \notin DOMAIN A3_TABLE THEN Raise("ValueError")
    ELSE LET A3          == A3_TABLE[subgroup_size]
             grand_avg_x == series_mean(df_subgroups_["mean"])
             grand_std_s == series_mean(df_subgroups_["std"])
             ucl         == f_add(grand_avg_x, f_mul(A3, grand_std_s))
             lcl         == f_add(grand_avg_x, f_mul(A3, grand_std_s))
         IN  Return(<<grand_avg_x, grand_std_s, ucl, lcl, A3>>)

calculate_control_limits_x_s(df_subgroups_, subgroup_size) ==
    IF subgroup_size \notin DOMAIN A3_TABLE THEN Raise("ValueError")
    ELSE LET A3          == A3_TABLE[subgroup_size]
             grand_avg_x == series_mean(df_subgroups_["mean"])
             grand_std_s == series_mean(df_subgroups_["std"])
             ucl         == f_add(grand_avg_x, f_mul(A3, grand_std_s))
             lcl         == f_sub(grand_avg_x, f_mul(A3, grand_std_s))
         IN  Return(<<grand_avg_x, grand_std_s, ucl, lcl, A3>>)

calculate_control_limits_r(df_subgroups_, subgroup_size) ==
    IF subgroup_size \notin DOMAIN D3_TABLE \/ subgroup_size \notin DOMAIN D4_TABLE
    THEN Raise("ValueError")
    ELSE LET D3    == D3_TABLE[subgroup_size]
             D4    == D4_TABLE[subgroup_size]
             avg_r == series_mean(df_subgroups_["range"])
         IN  Return(<<avg_r, f_mul(D4, avg_r), f_mul(D3, avg_r), D3, D4>>)

calculate_control_limits_s(df_subgroups_, subgroup_size) ==
    IF subgroup_size \notin DOMAIN B3_TABLE \/ subgroup_size \notin DOMAIN B4_TABLE
    THEN Raise("ValueError")
    ELSE LET B3      == B3_TABLE[subgroup_size]
             B4      == B4_TABLE[subgroup_size]
             avg_std == series_mean(df_subgroups_["std"])
         IN  Return(<<avg_std, f_mul(B4, avg_std), f_mul(B3, avg_std), B3, B4>>)

calculate_control_limits_i(df_subgroups_) ==
    LET d2            == D2_TABLE[2]
        E2            == E2_TABLE[2]
        grand_avg     == series_mean(df_subgroups_["mean"])
        mr_bar        == series_mean(df_subgroups_["moving_range"])
        process_sigma_ == f_div(mr_bar, d2)
        ucl_i         == f_add(grand_avg, f_mul(Float(3), process_sigma_))
        lcl_i         == f_sub(grand_avg, f_mul(Float(3), process_sigma_))
    IN  IF d2 = Float(0) THEN Raise("ZeroDivisionError")
        ELSE Return(<<grand_avg, mr_bar, ucl_i, lcl_i, E2, process_sigma_>>)

calculate_control_limits_mr(df_subgroups_) ==
    LET D3_mr  == Float(0)
        D4_mr  == Milli(3268)
        mr_bar == series_mean(df_subgroups_["moving_range"])
    IN  Return(<<mr_bar, f_mul(D4_mr, mr_bar), f_mul(D3_mr, mr_bar), D3_mr, D4_mr>>)

(* calculate_cpk that returns zero for both indices when the process      *)
(* sigma is zero                                                           *)
calculate_cpk_zero_sigma(usl_, lsl_, grand_avg, process_sigma_) ==
    IF usl_ = None \/ lsl_ = None THEN [ret |-> <<None, None>>, out |-> <<>>]
    ELSE IF f_lt(process_sigma_, Float(0))
    THEN [ret |-> <<None, None>>, out |-> <<"WARNING: Cannot calculate Cp/CpK">>]
    ELSE IF process_sigma_ = Float(0) THEN [ret |-> <<Float(0), Float(0)>>, out |-> <<>>]
    ELSE LET cp_  == f_div(f_sub(usl_, lsl_), f_mul(Float(6), process_sigma_))
             cpl  == f_div(f_sub(grand_avg, lsl_), f_mul(Float(3), process_sigma_))
             cpu  == f_div(f_sub(usl_, grand_avg), f_mul(Float(3), process_sigma_))
         IN  [ret |-> <<cp_, f_min(cpl, cpu)>>, out |-> <<>>]

(* calculate_cpk that returns the larger of Cpl and Cpu                    *)
calculate_cpk_max(usl_, lsl_, grand_avg, process_sigma_) ==
    IF usl_ = None \/ lsl_ = None THEN [ret |-> <<None, None>>, out |-> <<>>]
    ELSE IF f_le(process_sigma_, Float(0))
    THEN [ret |-> <<None, None>>, out |-> <<"WARNING: Cannot calculate Cp/CpK">>]
    ELSE LET cp_  == f_div(f_sub(usl_, lsl_), f_mul(Float(6), process_sigma_))
             cpl  == f_div(f_sub(grand_avg, lsl_), f_mul(Float(3), process_sigma_))
             cpu  == f_div(f_sub(usl_, grand_avg), f_mul(Float(3), process_sigma_))
         IN  [ret |-> <<cp_, IF f_lt(cpl, cpu) THEN cpu ELSE cpl>>, out |-> <<>>]

(* the value returned and the lines printed                                *)
calculate_cpk(usl_, lsl_, grand_avg, process_sigma_) ==
    IF usl_ = None \/ lsl_ = None THEN [ret |-> <<None, None>>, out |-> <<>>]
    ELSE IF f_le(process_sigma_, Float(0))
    THEN [ret |-> <<None, None>>, out |-> <<"WARNING: Cannot calculate Cp/CpK">>]
    ELSE LET cp_  == f_div(f_sub(usl_, lsl_), f_mul(Float(6), process_sigma_))
             cpl  == f_div(f_sub(grand_avg, lsl_), f_mul(Float(3), process_sigma_))
             cpu  == f_div(f_sub(usl_, grand_avg), f_mul(Float(3), process_sigma_))
         IN  [ret |-> <<cp_, f_min(cpl, cpu)>>, out |-> <<>>]

(* check_ooc with inclusive comparisons (>=, <=) instead of strict ones    *)
check_ooc_inclusive(df_subgroups_, data_column_name, ucl, lcl) ==
    LET present  == [i \in 1..Len(df_subgroups_[data_column_name]) |->
                        df_subgroups_[data_column_name][i] # NaN]
        df_temp  == frame_index(df_subgroups_, present)
        col      == df_temp[data_column_name]
        ooc_mask == [i \in 1..Len(col) |-> ~f_lt(col[i], ucl) \/ ~f_gt(col[i], lcl)]
        df_ooc   == frame_index(df_temp, ooc_mask)
    IN  with_column(df_ooc, "OOC_Flag", [i \in 1..Len(df_ooc[data_column_name]) |-> TRUE])

(* the rows with a present value above ucl or below lcl, OOC_Flag = True   *)
check_ooc(df_subgroups_, data_column_name, ucl, lcl) ==
    LET present  == [i \in 1..Len(df_subgroups_[data_column_name]) |->
                        df_subgroups_[data_column_name][i] # NaN]
        df_temp  == frame_index(df_subgroups_, present)
        col      == df_temp[data_column_name]
        ooc_mask == [i \in 1..Len(col) |-> f_gt(col[i], ucl) \/ f_lt(col[i], lcl)]
        df_ooc   == frame_index(df_temp, ooc_mask)
    IN  with_column(df_ooc, "OOC_Flag", [i \in 1..Len(df_ooc[data_column_name]) |-> TRUE])

----------------------------------------------------------------------------
(* Bounds of the explored inputs                                           *)

MaxLen == 3

MaxLen2 == 10

MaxLen3 == 8

MaxLen4 == 15

MaxLen5 == 5

MaxLen6 == 7

MaxLen7 == 16

MaxLen8 == 9

MaxLen56 == 6

MaxGroups == 5

MaxN == 17

MaxRows == 3
(* rows of the table handed to check_ooc                                  *)
MaxLenOoc == 4
(* points of the tables on which the order of the rules is varied         *)
MaxLenOrder == 9
(* rows of the tables grouped with missing keys                           *)
MaxLenKeys == 4
(* rows of the sheet of an analysis run                                  *)
MaxSheetRows == 3
(* arguments of the command line                                         *)
MaxArgs == 3



(* non-empty sequences over S of length at most n                          *)
SeqsUpTo(S, n) == UNION {[1..k -> S] : k \in 1..n}

RECURSIVE SumTo(_, _)
SumTo(st, k) == IF k = 0 THEN 0 ELSE st[k] + SumTo(st, k - 1)

(* sequences that start at 0 and move by a step of -1, 0 or +1 per point   *)
Walks(n) ==
    {[i \in 1..(Len(st) + 1) |-> SumTo(st, i - 1)] :
        st \in {<<>>} \cup SeqsUpTo({-1, 0, 1}, n - 1)}

(* sequences that start at 0 and move by a step of -1 or +1 per point      *)
UpDownWalks(n) ==
    {[i \in 1..(Len(st) + 1) |-> SumTo(st, i - 1)] :
        st \in {<<>>} \cup SeqsUpTo({-1, 1}, n - 1)}

(* means relative to CL = 0, UCL = 3, LCL = -3 (sigma = 1): beyond the     *)
(* limits, on the limits, on and beyond the 2-sigma and 1-sigma lines      *)
Values == {-4, -3, -2, 0, 2, 3, 4}

Limits == {<<0, 3, -3>>, <<0, 0, 0>>}

SpecLimits == {None, Val(2), Val(-2)}

----------------------------------------------------------------------------
(* State machine                                                           *)

Frame(s) == [mean |-> s]

(* __init__, lines 70-103: the attributes as the constructor leaves them   *)
init_group_fields ==
    /\ df_processed = NoFrame
    /\ invalid_groups = NoFrame
    /\ highest_frequnecy_subgroup_size = 0

init_metric_fields ==
    /\ process_sigma = Float(0)
    /\ cp = None /\ cpk = None
    /\ cl_v = None /\ ucl_v = None /\ lcl_v = None
    /\ ooc_points_v = NoFrame
    /\ variability_chart_type = "" /\ central_tendency_chart_type = ""

(* spc/__init__.py: TimeConfig                                             *)

(* datetime.today(), in days since 01-01-2024                              *)
today == 1039

(* the strings given as dates: str.lower() of each, the ones that          *)
(* datetime.strptime reads in the format %m-%d-%Y and the ones that only   *)
(* pandas.to_datetime reads, with their day since 01-01-2024; "soon" is    *)
(* read by neither                                                         *)
DateStrings == {"", "None", "null", "01-01-2024", "01-10-2024", "04-10-2024", "2024-02-10", "soon"}

str_lower(str) == IF str = "None" THEN "none" ELSE str

strptime == [str \in {"01-01-2024", "01-10-2024", "04-10-2024"} |->
                IF str = "01-01-2024" THEN 0 ELSE IF str = "01-10-2024" THEN 9 ELSE 100]

to_datetime == [str \in {"2024-02-10"} |-> 40]

(* TimeConfig._apply_range, lines 83-95                                    *)
delta_map ==
    [rng \in {"1d", "2d", "3d", "4d", "5d", "6d", "1w", "2w", "3w", "1m", "3m", "6m", "1y"} |->
        CASE rng = "1d" -> 1 [] rng = "2d" -> 2 [] rng = "3d" -> 3 [] rng = "4d" -> 4
          [] rng = "5d" -> 5 [] rng = "6d" -> 6 [] rng = "1w" -> 7 [] rng = "2w" -> 14
          [] rng = "3w" -> 21 [] rng = "1m" -> 30 [] rng = "3m" -> 84 [] rng = "6m" -> 168
          [] rng = "1y" -> 365]

_apply_range(dt, rng, backward) ==
    IF rng \notin DOMAIN delta_map THEN Raise("ValueError")
    ELSE LET delta == delta_map[rng]
         IN  Return(IF backward THEN Val(dt[1] - delta) ELSE Val(dt[1] + delta))

(* parse_opt, lines 100-112                                                *)
parse_opt(dt_str) ==
    IF dt_str = None \/ str_lower(dt_str[1]) \in {"none", "null", ""} THEN Return(None)
    ELSE IF dt_str[1] \in DOMAIN strptime THEN Return(Val(strptime[dt_str[1]]))
    ELSE IF dt_str[1] \in DOMAIN to_datetime THEN Return(Val(to_datetime[dt_str[1]]))
    ELSE Raise("ValueError")

(* the fields of a TimeConfig before __post_init__ has set its window      *)
TimeConfigFields(reference_date, start_date, end_date, date_range) ==
    [reference_date |-> reference_date, start_date |-> start_date, end_date |-> end_date,
     date_range |-> date_range, start_dt |-> None, end_dt |-> None]

(* TimeConfig(...): the dataclass constructor followed by __post_init__,   *)
(* lines 97-135; it returns the object or raises ValueError                *)
TimeConfig(reference_date, start_date, end_date, date_range) ==
    LET self  == TimeConfigFields(reference_date, start_date, end_date, date_range)
        ref   == parse_opt(reference_date)
        start == parse_opt(start_date)
        end   == parse_opt(end_date)
        window(a, b) == Return([self EXCEPT !.start_dt = a, !.end_dt = b])
    IN  IF Raises(ref) \/ Raises(start) \/ Raises(end) THEN Raise("ValueError")
        ELSE LET ref_dt   == IF ref.ret = None THEN Val(today) ELSE ref.ret
                 start_dt == start.ret
                 end_dt   == end.ret
             IN  IF start_dt # None /\ end_dt # None THEN window(start_dt, end_dt)
                 ELSE IF start_dt # None
                 THEN LET r == _apply_range(start_dt, date_range, FALSE)
                      IN  IF Raises(r) THEN r ELSE window(start_dt, r.ret)
                 ELSE IF end_dt # None
                 THEN LET r == _apply_range(end_dt, date_range, TRUE)
                      IN  IF Raises(r) THEN r ELSE window(r.ret, end_dt)
                 ELSE LET r == _apply_range(ref_dt, date_range, TRUE)
                      IN  IF Raises(r) THEN r ELSE window(r.ret, ref_dt)

(* spc/__init__.py: a DataConfig with the grouping keys of the property    *)
(* grouping_keys (line 54)                                                 *)
DataConfig(grouping_keys_, column_filters_) ==
    [y_data_name |-> "y", grouping_keys |-> grouping_keys_, column_filters |-> column_filters_]

(* a processor as __init__ leaves it, for a configuration without column  *)
(* filter whose window is 01-01-2024 to 04-10-2024                         *)
init_run_fields ==
    /\ dataconfig = DataConfig(<<"Date", "Glass ID">>, None)
    /\ timeconfig = TimeConfig(None, Val("01-01-2024"), Val("04-10-2024"), "1w").ret
    /\ output_prefix = "spc_setup01"
    /\ excel = NoFrame
    /\ df_raw = NoFrame
    /\ files = {}
    /\ calls = <<>>

(* spc/spc_process.py, lines 25-28: the lists of main are empty            *)
init_batch_fields ==
    /\ sys_argv = <<>>
    /\ input_file_paths = <<>>
    /\ config_files_to_process = <<>>
    /\ file_path = 0
    /\ config_item = 0

(* spc/__init__.py: the construction of one TimeConfig from the values of  *)
(* the key time_config of a configuration file                             *)
DateInputs == {None} \cup {Val(str) : str \in DateStrings \ {"01-01-2024", "04-10-2024"}}

RangeInputs == DOMAIN delta_map \cup {"2y", ""}

InitTimeConfig ==
    /\ df_subgroups = NoFrame
    /\ cl_x = None /\ ucl_x = None /\ lcl_x = None
    /\ usl = None /\ lsl = None
    /\ test_ooc = NoFrame
    /\ init_group_fields
    /\ init_metric_fields
    /\ stdout = <<>>
    /\ dataconfig = DataConfig(<<"Date", "Glass ID">>, None)
    /\ \E reference_date, start_date, end_date \in DateInputs :
           \E date_range \in RangeInputs :
               timeconfig = TimeConfigFields(reference_date, start_date, end_date, date_range)
    /\ output_prefix = "spc_setup01"
    /\ excel = NoFrame
    /\ df_raw = NoFrame
    /\ files = {}
    /\ calls = <<>>
    /\ init_batch_fields
    /\ pc = "TimeConfig"

new_TimeConfig ==
    /\ pc = "TimeConfig"
    /\ \E r \in {TimeConfig(timeconfig.reference_date, timeconfig.start_date,
                            timeconfig.end_date, timeconfig.date_range)} :
           IF Raises(r)
           THEN /\ pc' = r.raise
                /\ UNCHANGED timeconfig
           ELSE /\ pc' = "return"
                /\ timeconfig' = r.ret
    /\ UNCHANGED <<df_subgroups, cl_x, ucl_x, lcl_x, usl, lsl, test_ooc>>
    /\ UNCHANGED <<group_fields, metric_fields, stdout, batch_fields>>
    /\ UNCHANGED <<dataconfig, output_prefix, excel, df_raw, files, calls>>

SpecTimeConfig == InitTimeConfig /\ [][new_TimeConfig]_vars

InitWith(inputs, limits, entry) ==
    /\ df_subgroups \in {Frame(s) : s \in inputs}
    /\ \E l \in limits : cl_x = Val(l[1]) /\ ucl_x = Val(l[2]) /\ lcl_x = Val(l[3])
    /\ usl = None
    /\ lsl = None
    /\ test_ooc = NoFrame
    /\ init_group_fields
    /\ init_metric_fields
    /\ stdout = <<>>
    /\ init_run_fields
    /\ init_batch_fields
    /\ pc = entry

(* Init: the processor after _calculate_metrics, before _check_nelson      *)
Init ==
    /\ df_subgroups \in {Frame(s) : s \in SeqsUpTo(Values, MaxLen)}
    /\ \E l \in Limits : cl_x = Val(l[1]) /\ ucl_x = Val(l[2]) /\ lcl_x = Val(l[3])
    /\ usl \in SpecLimits
    /\ lsl \in SpecLimits
    /\ test_ooc = NoFrame
    /\ init_group_fields
    /\ init_metric_fields
    /\ stdout = <<>>
    /\ init_run_fields
    /\ init_batch_fields
    /\ pc = "_check_nelson"

_check_nelson ==
    /\ pc = "_check_nelson"
    /\ test_ooc' = check_nelson_frame(df_subgroups, cl_x[1], ucl_x[1], lcl_x[1], usl, lsl)
    /\ calls' = calls \o check_nelson_calls
    /\ pc' = "_generate_report"
    /\ UNCHANGED <<df_subgroups, cl_x, ucl_x, lcl_x, usl, lsl>>
    /\ UNCHANGED <<group_fields, metric_fields, stdout>>
    /\ UNCHANGED <<dataconfig, timeconfig, output_prefix, excel, df_raw, files, batch_fields>>

Next == _check_nelson

Spec == Init /\ [][Next]_vars

(* _check_nelson on tables long enough for a run of Rule 2 and a trend of  *)
(* Rule 3: walks of the mean that start at CL = 0 and rise or fall by 1    *)
(* per point, with UCL = 3, LCL = -3, USL = 2 and LSL = -2                 *)
InitOrder ==
    /\ df_subgroups \in {Frame(s) : s \in UpDownWalks(MaxLenOrder)}
    /\ cl_x = Val(0) /\ ucl_x = Val(3) /\ lcl_x = Val(-3)
    /\ usl = Val(2)
    /\ lsl = Val(-2)
    /\ test_ooc = NoFrame
    /\ init_group_fields
    /\ init_metric_fields
    /\ stdout = <<>>
    /\ init_run_fields
    /\ init_batch_fields
    /\ pc = "_check_nelson"

SpecOrder == InitOrder /\ [][_check_nelson]_vars

(* One rule function applied to a subgroup table, as a pure function       *)

Returned(df) ==
    /\ test_ooc' = df
    /\ pc' = "return"
    /\ UNCHANGED <<df_subgroups, cl_x, ucl_x, lcl_x, usl, lsl>>
    /\ UNCHANGED <<group_fields, metric_fields, stdout, run_fields, batch_fields>>

InitRule2 == InitWith(SeqsUpTo({-1, 0, 1}, MaxLen2), {<<0, 3, -3>>}, "nelson_2")

call_nelson_2 ==
    /\ pc = "nelson_2"
    /\ Returned(nelson_2(df_subgroups, "mean", cl_x[1], "Rule 2"))

SpecRule2 == InitRule2 /\ [][call_nelson_2]_vars

InitRule3 == InitWith(Walks(MaxLen3), {<<0, 3, -3>>}, "nelson_3")

call_nelson_3 ==
    /\ pc = "nelson_3"
    /\ Returned(nelson_3(df_subgroups, "mean", "Rule 3"))

SpecRule3 == InitRule3 /\ [][call_nelson_3]_vars

InitRule4 == InitWith(SeqsUpTo({0, 1}, MaxLen4), {<<0, 3, -3>>}, "nelson_4")

call_nelson_4 ==
    /\ pc = "nelson_4"
    /\ Returned(nelson_4(df_subgroups, "mean", "Rule 4"))

SpecRule4 == InitRule4 /\ [][call_nelson_4]_vars

InitRule5 == InitWith(SeqsUpTo({-3, -2, 0, 2, 3}, MaxLen5), {<<0, 3, -3>>}, "nelson_5")

call_nelson_5 ==
    /\ pc = "nelson_5"
    /\ Returned(nelson_5(df_subgroups, "mean", cl_x[1], ucl_x[1], lcl_x[1], "Rule 5"))

SpecRule5 == InitRule5 /\ [][call_nelson_5]_vars

InitRule6 == InitWith(SeqsUpTo({-2, 0, 2}, MaxLen6), {<<0, 3, -3>>}, "nelson_6")

call_nelson_6 ==
    /\ pc = "nelson_6"
    /\ Returned(nelson_6(df_subgroups, "mean", cl_x[1], ucl_x[1], lcl_x[1], "Rule 6"))

SpecRule6 == InitRule6 /\ [][call_nelson_6]_vars

InitRule7 == InitWith(SeqsUpTo({0, 2}, MaxLen7), {<<0, 3, -3>>}, "nelson_7")

call_nelson_7 ==
    /\ pc = "nelson_7"
    /\ Returned(nelson_7(df_subgroups, "mean", cl_x[1], ucl_x[1], lcl_x[1], "Rule 7"))

SpecRule7 == InitRule7 /\ [][call_nelson_7]_vars

InitRule8 == InitWith(SeqsUpTo({-2, 0, 2}, MaxLen8), {<<0, 3, -3>>}, "nelson_8")

call_nelson_8 ==
    /\ pc = "nelson_8"
    /\ Returned(nelson_8(df_subgroups, "mean", cl_x[1], ucl_x[1], lcl_x[1], "Rule 8"))

SpecRule8 == InitRule8 /\ [][call_nelson_8]_vars

(* Rule 5 or Rule 6 applied to the same set of subgroup tables             *)
InitRule56 ==
    \E entry \in {"nelson_5", "nelson_6"} :
        InitWith(SeqsUpTo({-3, -2, 0, 2, 3}, MaxLen56), {<<0, 3, -3>>}, entry)

NextRule56 == call_nelson_5 \/ call_nelson_6

SpecRule56 == InitRule56 /\ [][NextRule56]_vars

----------------------------------------------------------------------------
(* spc/processor.py: SpcDataProcessor._group_data, _calculate_metrics and  *)
(* the call of _check_nelson that follows them in run_analysis             *)

(* lines 219-224: the subgroup table with its range and its moving range   *)
(* lines 209-215: without grouping keys every row is a subgroup of size 1  *)
rows_as_subgroups(df) ==
    LET I == 1..Len(df["y"])
    IN  [key  |-> row_keys(df),
         mean |-> df["y"],
         std  |-> [i \in I |-> None],
         min  |-> df["y"],
         max  |-> df["y"],
         size |-> [i \in I |-> 1]]

subgroup_table(df, grouping_keys) ==
    LET agg == IF grouping_keys = <<>> THEN rows_as_subgroups(df) ELSE groupby_agg(df)
        rng == [i \in 1..Len(agg["mean"]) |-> f_sub(agg["max"][i], agg["min"][i])]
    IN  with_column(with_column(agg, "range", rng), "moving_range", diff_abs(agg["mean"]))

(* the size filter applied to every dominant size, 1 included              *)
filters_by_size_always(n) == n >= 1

(* line 239: the table is filtered down to the dominant size only when     *)
(* that size is greater than 1                                             *)
filters_by_size(n) == n > 1

(* valid_groups that keeps every subgroup                                  *)
valid_groups_all(table, n) ==
    frame_index(table, [i \in 1..Len(table["size"]) |-> table["size"][i] >= 1])

valid_groups(table, n) ==
    frame_index(table, [i \in 1..Len(table["size"]) |-> table["size"][i] = n])

invalid_groups_of(table, n) ==
    frame_index(table, [i \in 1..Len(table["size"]) |-> table["size"][i] # n])

(* pd.DataFrame(): a frame without columns and without rows, which is not  *)
(* None                                                                    *)
DataFrame == [index |-> <<>>]

_group_data ==
    /\ pc = "_group_data"
    /\ IF df_processed = NoFrame \/ Len(df_processed["y"]) = 0
       THEN /\ stdout' = Append(stdout, "Cannot group data. Processed DataFrame is empty.")
            /\ pc' = "return"
            /\ UNCHANGED <<df_subgroups, invalid_groups, highest_frequnecy_subgroup_size>>
       ELSE \E table \in {subgroup_table(df_processed, dataconfig.grouping_keys)} :
                IF Len(table["size"]) = 0
                THEN /\ stdout' = Append(stdout, "Cannot group data: no subgroups generated.")
                     /\ df_subgroups' = NoFrame
                     /\ pc' = "return"
                     /\ UNCHANGED <<invalid_groups, highest_frequnecy_subgroup_size>>
                ELSE \E first \in value_counts_first(table["size"]) :
                       /\ highest_frequnecy_subgroup_size' = first
                       /\ IF filters_by_size(first)
                          THEN /\ invalid_groups' = invalid_groups_of(table, first)
                               /\ df_subgroups' = valid_groups(table, first)
                               /\ stdout' =
                                     IF Len(invalid_groups_of(table, first)["size"]) > 0
                                     THEN Append(stdout, "Inconsistent group sizes detected.")
                                     ELSE stdout
                          ELSE /\ invalid_groups' = DataFrame
                               /\ df_subgroups' = table
                               /\ UNCHANGED stdout
                       /\ pc' = "_calculate_metrics"
    /\ calls' = Append(calls, "_group_data")
    /\ UNCHANGED <<df_processed, cl_x, ucl_x, lcl_x, usl, lsl, test_ooc, metric_fields>>
    /\ UNCHANGED <<dataconfig, timeconfig, output_prefix, excel, df_raw, files, batch_fields>>

(* the branch of the try block taken for the subgroup size n: the chart    *)
(* types, the results of the two limit functions, the position of the      *)
(* process sigma in the first result and the column of the variability     *)
(* chart; the last branch raises                                           *)
(* limits_branch without an upper bound on the sizes of the S chart        *)
limits_branch_unbounded(df, n) ==
    IF n = 1
    THEN [central |-> "I", variability |-> "MR",
          x |-> calculate_control_limits_i(df), v |-> calculate_control_limits_mr(df),
          sigma_at |-> 6, variability_data_col |-> "moving_range",
          calls |-> <<"_calculate_metrics", "calculate_control_limits_i", "calculate_control_limits_mr">>]
    ELSE IF n >= 2 /\ n < 10
    THEN [central |-> "X", variability |-> "R",
          x |-> calculate_control_limits_x_s(df, n), v |-> calculate_control_limits_r(df, n),
          sigma_at |-> 2, variability_data_col |-> "range",
          calls |-> <<"_calculate_metrics", "calculate_control_limits_x_s", "calculate_control_limits_r">>]
    ELSE [central |-> "X", variability |-> "S",
          x |-> calculate_control_limits_x_s(df, n), v |-> calculate_control_limits_s(df, n),
          sigma_at |-> 2, variability_data_col |-> "std",
          calls |-> <<"_calculate_metrics", "calculate_control_limits_x_s", "calculate_control_limits_s">>]

(* limits_branch with the R chart up to and including n = 10               *)
limits_branch_r_through_10(df, n) ==
    IF n = 1
    THEN [central |-> "I", variability |-> "MR",
          x |-> calculate_control_limits_i(df), v |-> calculate_control_limits_mr(df),
          sigma_at |-> 6, variability_data_col |-> "moving_range",
          calls |-> <<"_calculate_metrics", "calculate_control_limits_i", "calculate_control_limits_mr">>]
    ELSE IF n >= 2 /\ n <= 10
    THEN [central |-> "X", variability |-> "R",
          x |-> calculate_control_limits_x_s(df, n), v |-> calculate_control_limits_r(df, n),
          sigma_at |-> 2, variability_data_col |-> "range",
          calls |-> <<"_calculate_metrics", "calculate_control_limits_x_s", "calculate_control_limits_r">>]
    ELSE IF n > 10 /\ n <= 15
    THEN [central |-> "X", variability |-> "S",
          x |-> calculate_control_limits_x_s(df, n), v |-> calculate_control_limits_s(df, n),
          sigma_at |-> 2, variability_data_col |-> "std",
          calls |-> <<"_calculate_metrics", "calculate_control_limits_x_s", "calculate_control_limits_s">>]
    ELSE Raise("ValueError")

limits_branch(df, n) ==
    IF n = 1
    THEN [central |-> "I", variability |-> "MR",
          x |-> calculate_control_limits_i(df), v |-> calculate_control_limits_mr(df),
          sigma_at |-> 6, variability_data_col |-> "moving_range",
          calls |-> <<"_calculate_metrics", "calculate_control_limits_i", "calculate_control_limits_mr">>]
    ELSE IF n >= 2 /\ n < 10
    THEN [central |-> "X", variability |-> "R",
          x |-> calculate_control_limits_x_s(df, n), v |-> calculate_control_limits_r(df, n),
          sigma_at |-> 2, variability_data_col |-> "range",
          calls |-> <<"_calculate_metrics", "calculate_control_limits_x_s", "calculate_control_limits_r">>]
    ELSE IF n >= 10 /\ n <= 15
    THEN [central |-> "X", variability |-> "S",
          x |-> calculate_control_limits_x_s(df, n), v |-> calculate_control_limits_s(df, n),
          sigma_at |-> 2, variability_data_col |-> "std",
          calls |-> <<"_calculate_metrics", "calculate_control_limits_x_s", "calculate_control_limits_s">>]
    ELSE Raise("ValueError")

_calculate_metrics ==
    /\ pc = "_calculate_metrics"
    /\ \E b \in {limits_branch(df_subgroups, highest_frequnecy_subgroup_size)} :
           IF Raises(b)
           THEN /\ stdout' = Append(stdout, "Error calculating control limits: Subgroup size is not supported")
                /\ calls' = Append(calls, "_calculate_metrics")
                /\ UNCHANGED <<cl_x, ucl_x, lcl_x, metric_fields>>
           ELSE /\ central_tendency_chart_type' = b.central
                /\ variability_chart_type' = b.variability
                /\ IF Raises(b.x)
                   THEN /\ stdout' = Append(stdout, "Error calculating control limits")
                        /\ calls' = calls \o SubSeq(b.calls, 1, 2)
                        /\ UNCHANGED <<cl_x, ucl_x, lcl_x, process_sigma, cp, cpk,
                                       cl_v, ucl_v, lcl_v, ooc_points_v>>
                   ELSE /\ cl_x' = b.x.ret[1]
                        /\ ucl_x' = b.x.ret[3]
                        /\ lcl_x' = b.x.ret[4]
                        /\ IF Raises(b.v)
                           THEN /\ process_sigma' =
                                      IF b.sigma_at = 6 THEN b.x.ret[6] ELSE process_sigma
                                /\ stdout' = Append(stdout, "Error calculating control limits")
                                /\ calls' = calls \o b.calls
                                /\ UNCHANGED <<cp, cpk, cl_v, ucl_v, lcl_v, ooc_points_v>>
                           ELSE \E capability \in
                                       {calculate_cpk(usl, lsl, b.x.ret[1], b.x.ret[b.sigma_at])} :
                                    /\ process_sigma' = b.x.ret[b.sigma_at]
                                    /\ cl_v' = b.v.ret[1]
                                    /\ ucl_v' = b.v.ret[2]
                                    /\ lcl_v' = b.v.ret[3]
                                    /\ ooc_points_v' =
                                          check_ooc(df_subgroups, b.variability_data_col,
                                                    b.v.ret[2], b.v.ret[3])
                                    /\ cp' = capability.ret[1]
                                    /\ cpk' = capability.ret[2]
                                    /\ stdout' = stdout \o capability.out
                                    /\ calls' = calls \o b.calls \o <<"check_ooc", "calculate_cpk">>
    /\ pc' = "_check_nelson"
    /\ UNCHANGED <<df_subgroups, usl, lsl, test_ooc, group_fields>>
    /\ UNCHANGED <<dataconfig, timeconfig, output_prefix, excel, df_raw, files, batch_fields>>

(* The rule functions compare numbers and add multiples of sigma, so their *)
(* flags are the same for the floats and for the whole numbers obtained by *)
(* multiplying every float by one common multiple of the denominators; the *)
(* multiple is taken 6 times larger so that sigma is a whole number too.   *)
lcm(a, b) == (a \div gcd(a, b)) * b

RECURSIVE common_den(_, _)
common_den(fs, k) ==
    IF k = 0 THEN 1
    ELSE IF fs[k] = NaN THEN common_den(fs, k - 1)
    ELSE lcm(fs[k][1].den, common_den(fs, k - 1))

scaled(f, K) == f[1].num * (K \div f[1].den)

scaled_limit(f, K) == IF f = None THEN None ELSE Val(scaled(f, K))

(* the columns of df with the columns that the rule functions added        *)
with_rule_columns(df, flagged) ==
    [c \in (DOMAIN df) \cup (DOMAIN flagged) |-> IF c \in DOMAIN df THEN df[c] ELSE flagged[c]]

check_nelson_floats(df, cl, ucl, lcl, usl_, lsl_) ==
    LET fs    == df["mean"] \o <<cl, ucl, lcl, usl_, lsl_>>
        K     == 6 * common_den(fs, Len(fs))
        means == [i \in 1..Len(df["mean"]) |-> scaled(df["mean"][i], K)]
    IN  with_rule_columns(df,
            check_nelson_frame([mean |-> means], scaled(cl, K), scaled(ucl, K), scaled(lcl, K),
                               scaled_limit(usl_, K), scaled_limit(lsl_, K)))

(* _check_nelson when the limits are still None: mean > None and           *)
(* mean < None are False for every row, so Rule 1 flags nothing and Rule 2 *)
(* sees every point on the lower side, as with a centre line at the        *)
(* largest mean; Rules 3 and 4 take no limit; test_ooc holds their columns *)
(* when nelson_5 calls _calculate_sigma(None, None)                        *)
check_nelson_no_limits(df) ==
    LET fs    == df["mean"]
        K     == common_den(fs, Len(fs))
        means == [i \in 1..Len(fs) |-> scaled(fs[i], K)]
        top   == CHOOSE m \in {means[i] : i \in 1..Len(fs)} : \A i \in 1..Len(fs) : means[i] <= m
        t1    == nelson_1([mean |-> means], "mean", None, None, "Rule 1")
        t2    == nelson_2(t1, "mean", top, "Rule 2")
        t3    == nelson_3(t2, "mean", "Rule 3")
    IN  with_rule_columns(df, nelson_4(t3, "mean", "Rule 4"))

(* _check_nelson on the I chart of a single subgroup: its moving range is  *)
(* NaN, so UCL and LCL are NaN and the centre line is the mean.  Rule 1    *)
(* compares with NaN, which is False as with None; no window of Rules 5    *)
(* to 8 is full on one row, so the zone of the one point decides nothing   *)
(* and the limits CL + 3 and CL - 3 stand in for the NaN ones              *)
check_nelson_nan_limits(df, cl, usl_, lsl_) ==
    LET fs    == df["mean"] \o <<cl, usl_, lsl_>>
        K     == common_den(fs, Len(fs))
        means == [i \in 1..Len(df["mean"]) |-> scaled(df["mean"][i], K)]
        c     == scaled(cl, K)
        t1    == nelson_1([mean |-> means], "mean", NaN, NaN, "Rule 1")
        t2    == nelson_2(t1, "mean", c, "Rule 2")
        t3    == nelson_3(t2, "mean", "Rule 3")
        t4    == nelson_4(t3, "mean", "Rule 4")
        t5    == nelson_5(t4, "mean", c, c + 3, c - 3, "Rule 5")
        t6    == nelson_6(t5, "mean", c, c + 3, c - 3, "Rule 6")
        t7    == nelson_7(t6, "mean", c, c + 3, c - 3, "Rule 7")
        t8    == nelson_8(t7, "mean", c, c + 3, c - 3, "Rule 8")
    IN  with_rule_columns(df, nelson_1(t8, "mean", scaled_limit(usl_, K),
                                       scaled_limit(lsl_, K), "OOS"))

run_check_nelson ==
    /\ pc = "_check_nelson"
    /\ IF cl_x = None
       THEN /\ test_ooc' = check_nelson_no_limits(df_subgroups)
            /\ calls' = calls \o SubSeq(check_nelson_calls, 1, 6)
            /\ pc' = "TypeError"
       ELSE IF ucl_x = NaN \/ lcl_x = NaN
       THEN /\ test_ooc' = check_nelson_nan_limits(df_subgroups, cl_x, usl, lsl)
            /\ calls' = calls \o check_nelson_calls
            /\ pc' = "_generate_report"
       ELSE /\ test_ooc' = check_nelson_floats(df_subgroups, cl_x, ucl_x, lcl_x, usl, lsl)
            /\ calls' = calls \o check_nelson_calls
            /\ pc' = "_generate_report"
    /\ UNCHANGED <<df_subgroups, cl_x, ucl_x, lcl_x, usl, lsl>>
    /\ UNCHANGED <<group_fields, metric_fields, stdout>>
    /\ UNCHANGED <<dataconfig, timeconfig, output_prefix, excel, df_raw, files, batch_fields>>

NextRun == _group_data \/ _calculate_metrics \/ run_check_nelson

(* spc/processor.py: the methods of run_analysis before _group_data and    *)
(* after _check_nelson.  The sheet has its cells already read: a date is   *)
(* its day or NaN (pd.to_datetime, errors="coerce"), a measurement a float *)
(* or NaN (pd.to_numeric, errors="coerce").                                *)

(* DataConfig.required_columns, spc/__init__.py lines 56-67                *)
required_columns(dc) ==
    {dc.grouping_keys[i] : i \in 1..Len(dc.grouping_keys)} \cup {dc.y_data_name}
        \cup {k \in DOMAIN dc.column_filters : dc.column_filters[k] # None}

(* str.casefold() of the entries of the filtered column                    *)
casefold(str) == IF str = "A" THEN "a" ELSE str

(* lines 106-110 and _load_data: read_excel finds the sheet or not         *)
_load_data ==
    /\ pc = "_load_data"
    /\ df_raw' = excel
    /\ IF excel = NoFrame
       THEN /\ stdout' = stdout \o <<"Starting SPC Analysis", "Error: File not found">>
            /\ pc' = "return"
       ELSE /\ stdout' = Append(stdout, "Starting SPC Analysis")
            /\ pc' = "_clean_and_convert_columns"
    /\ calls' = Append(calls, "_load_data")
    /\ UNCHANGED <<df_subgroups, cl_x, ucl_x, lcl_x, usl, lsl, test_ooc>>
    /\ UNCHANGED <<group_fields, metric_fields, batch_fields>>
    /\ UNCHANGED <<dataconfig, timeconfig, output_prefix, excel, files>>

_clean_and_convert_columns ==
    /\ pc = "_clean_and_convert_columns"
    /\ \E cols_to_keep \in {required_columns(dataconfig)} :
           IF ~(cols_to_keep \subseteq DOMAIN df_raw)
           THEN /\ pc' = "ValueError"
                /\ UNCHANGED df_processed
           ELSE /\ df_processed' =
                       frame_index([c \in cols_to_keep |-> df_raw[c]],
                                   [i \in 1..Len(df_raw["Date"]) |->
                                       df_raw["Date"][i] # NaN
                                           /\ df_raw[dataconfig.y_data_name][i] # NaN])
                /\ pc' = "_filter_by_date"
    /\ calls' = Append(calls, "_clean_and_convert_columns")
    /\ UNCHANGED <<df_subgroups, cl_x, ucl_x, lcl_x, usl, lsl, test_ooc, stdout>>
    /\ UNCHANGED <<invalid_groups, highest_frequnecy_subgroup_size, metric_fields>>
    /\ UNCHANGED <<dataconfig, timeconfig, output_prefix, excel, df_raw, files, batch_fields>>

_filter_by_date ==
    /\ pc = "_filter_by_date"
    /\ IF Len(df_processed["Date"]) = 0
       THEN UNCHANGED <<df_processed, stdout>>
       ELSE /\ stdout' = Append(stdout, "Filtering DataFrame for date range")
            /\ df_processed' =
                   frame_index(df_processed,
                               [i \in 1..Len(df_processed["Date"]) |->
                                   /\ df_processed["Date"][i][1] >= timeconfig.start_dt[1]
                                   /\ df_processed["Date"][i][1] <= timeconfig.end_dt[1]])
    /\ pc' = "_filter_by_column_entry"
    /\ calls' = Append(calls, "_filter_by_date")
    /\ UNCHANGED <<df_subgroups, cl_x, ucl_x, lcl_x, usl, lsl, test_ooc>>
    /\ UNCHANGED <<invalid_groups, highest_frequnecy_subgroup_size, metric_fields>>
    /\ UNCHANGED <<dataconfig, timeconfig, output_prefix, excel, df_raw, files, batch_fields>>

(* the rows whose entry equals the value of every active filter, without   *)
(* regard to case; the filtered columns hold strings                       *)
_filter_by_column_entry ==
    /\ pc = "_filter_by_column_entry"
    /\ \E active_filters \in
            {{k \in DOMAIN dataconfig.column_filters : dataconfig.column_filters[k] # None}} :
           IF Len(df_processed["Date"]) = 0 \/ active_filters = {}
           THEN UNCHANGED df_processed
           ELSE df_processed' =
                   frame_index(df_processed,
                               [i \in 1..Len(df_processed["Date"]) |->
                                   \A column_name \in active_filters :
                                       casefold(df_processed[column_name][i][1])
                                           = casefold(dataconfig.column_filters[column_name][1])])
    /\ pc' = "_group_data"
    /\ calls' = Append(calls, "_filter_by_column_entry")
    /\ UNCHANGED <<df_subgroups, cl_x, ucl_x, lcl_x, usl, lsl, test_ooc, stdout>>
    /\ UNCHANGED <<invalid_groups, highest_frequnecy_subgroup_size, metric_fields>>
    /\ UNCHANGED <<dataconfig, timeconfig, output_prefix, excel, df_raw, files, batch_fields>>

(* open(name, 'w') or savefig(name) by the run output_prefix: the file of  *)
(* that name in the working directory is created or replaced               *)
write_file(fs, name, kind) ==
    {f \in fs : f.name # name} \cup {[name |-> name, kind |-> kind, run |-> output_prefix]}

(* lines 415 and 422: the report has the same name in every run            *)
_generate_report ==
    /\ pc = "_generate_report"
    /\ files' = write_file(files, <<"spc_report.txt">>, "report")
    /\ stdout' = Append(stdout, "Report generated")
    /\ pc' = "_plot_charts"
    /\ calls' = Append(calls, "_generate_report")
    /\ UNCHANGED <<df_subgroups, cl_x, ucl_x, lcl_x, usl, lsl, test_ooc>>
    /\ UNCHANGED <<group_fields, metric_fields, batch_fields>>
    /\ UNCHANGED <<dataconfig, timeconfig, output_prefix, excel, df_raw>>

(* lines 568 and 596: one chart per rule and the variability chart, named  *)
(* by the rule and the chart type only                                     *)
_plot_charts ==
    /\ pc = "_plot_charts"
    /\ LET rule_ls == {"Rule1", "Rule2", "Rule3", "Rule4", "Rule5", "Rule6", "Rule7", "Rule8"}
           charts  == {<<rule, "_", central_tendency_chart_type, "chart.png">> : rule \in rule_ls}
                          \cup {<<variability_chart_type, "chart.png">>}
       IN  files' = {f \in files : f.name \notin charts}
                        \cup {[name |-> name, kind |-> "chart", run |-> output_prefix] :
                                 name \in charts}
    /\ stdout' = stdout \o <<"chart.png", "Analysis complete">>
    /\ pc' = "return"
    /\ calls' = Append(calls, "_plot_charts")
    /\ UNCHANGED <<df_subgroups, cl_x, ucl_x, lcl_x, usl, lsl, test_ooc>>
    /\ UNCHANGED <<group_fields, metric_fields, batch_fields>>
    /\ UNCHANGED <<dataconfig, timeconfig, output_prefix, excel, df_raw>>

NextAnalysis ==
    \/ _load_data
    \/ _clean_and_convert_columns
    \/ _filter_by_date
    \/ _filter_by_column_entry
    \/ _group_data
    \/ _calculate_metrics
    \/ run_check_nelson
    \/ _generate_report
    \/ _plot_charts

(* The measurements of a run: one block of rows per subgroup, in the order *)
(* of the subgroups; the key of a row is the number of its subgroup, as a  *)
(* present value                                                           *)
RECURSIVE rows_of(_, _, _)
rows_of(blocks, column, g) ==
    IF g > Len(blocks) THEN <<>>
    ELSE [i \in 1..Len(blocks[g]) |-> IF column = "key" THEN Val(g) ELSE Float(blocks[g][i])]
         \o rows_of(blocks, column, g + 1)

measurements(blocks) == [key |-> rows_of(blocks, "key", 1), y |-> rows_of(blocks, "y", 1)]

(* n measurements equal to c, and n measurements of mean c of which one is *)
(* c - 1 and one is c + 1                                                  *)
constant_block(n, c) == [i \in 1..n |-> c]

spread_block(n, c) ==
    [i \in 1..n |-> IF n >= 2 /\ i = 1 THEN c - 1 ELSE IF n >= 2 /\ i = 2 THEN c + 1 ELSE c]

(* sequences over S of at least 2 and at most n elements, and the empty    *)
(* sequence                                                                *)
SeqsFrom2(S, n) == UNION {[1..k -> S] : k \in 2..n}

(* specification limits of a run: none, or USL = 10 and LSL = 0            *)
RunSpecLimits == {<<None, None>>, <<Float(10), Float(0)>>}

InitRun(inputs, limits) ==
    /\ df_processed \in {measurements(blocks) : blocks \in inputs}
    /\ \E l \in limits : usl = l[1] /\ lsl = l[2]
    /\ df_subgroups = NoFrame
    /\ invalid_groups = NoFrame
    /\ highest_frequnecy_subgroup_size = 0
    /\ cl_x = None /\ ucl_x = None /\ lcl_x = None
    /\ init_metric_fields
    /\ test_ooc = NoFrame
    /\ stdout = <<>>
    /\ init_run_fields
    /\ init_batch_fields
    /\ pc = "_group_data"

(* runs over subgroups of the sizes 1, 4 and 5, with USL = 10 and LSL = 0  *)
GroupBlocks ==
    {<<5>>, <<8>>, <<4, 4, 6, 6>>, <<4, 4, 5, 6, 6>>, <<7, 7, 8, 9, 9>>}

InitGroup == InitRun(SeqsFrom2(GroupBlocks, MaxGroups) \cup {<<>>}, {<<Float(10), Float(0)>>})

SpecGroup == InitGroup /\ [][NextRun]_vars

(* _group_data on measurements whose Glass ID may be missing, with the     *)
(* grouping keys of DataConfig and with an empty list of grouping keys     *)
KeyValues == {Val(1), Val(2), NaN}

KeyRows == {[key |-> k, y |-> Float(v)] : k \in KeyValues, v \in {5, 8}}

key_measurements(rows) ==
    [key |-> [i \in 1..Len(rows) |-> rows[i].key], y |-> [i \in 1..Len(rows) |-> rows[i].y]]

InitKeys ==
    /\ df_processed \in {key_measurements(rows) : rows \in SeqsUpTo(KeyRows, MaxLenKeys)}
    /\ usl = None /\ lsl = None
    /\ df_subgroups = NoFrame
    /\ invalid_groups = NoFrame
    /\ highest_frequnecy_subgroup_size = 0
    /\ cl_x = None /\ ucl_x = None /\ lcl_x = None
    /\ init_metric_fields
    /\ test_ooc = NoFrame
    /\ stdout = <<>>
    /\ dataconfig \in {DataConfig(<<"Date", "Glass ID">>, None), DataConfig(<<>>, None)}
    /\ timeconfig = TimeConfig(None, Val("01-01-2024"), Val("04-10-2024"), "1w").ret
    /\ output_prefix = "spc_setup01"
    /\ excel = NoFrame
    /\ df_raw = NoFrame
    /\ files = {}
    /\ calls = <<>>
    /\ init_batch_fields
    /\ pc = "_group_data"

SpecKeys == InitKeys /\ [][_group_data]_vars

(* one analysis run on a sheet of at most MaxSheetRows rows, with or       *)
(* without the column of the filter, or on a missing file                  *)
SheetRow(date, glass, y, line) ==
    [Date |-> date, glass |-> glass, y |-> y, Line |-> line]

SheetRows ==
    {SheetRow(Val(9), Val(1), Float(5), Val("a")),
     SheetRow(Val(9), Val(1), Float(8), Val("A")),
     SheetRow(Val(40), Val(1), Float(8), Val("a")),
     SheetRow(Val(40), Val(2), Float(5), Val("b")),
     SheetRow(NaN, Val(1), Float(5), Val("a")),
     SheetRow(Val(9), Val(2), NaN, Val("a")),
     SheetRow(Val(200), Val(1), Float(5), Val("a"))}

sheet(rows, columns) ==
    [c \in columns |->
        [i \in 1..Len(rows) |->
            IF c = "Date" THEN rows[i].Date
            ELSE IF c = "Glass ID" THEN rows[i].glass
            ELSE IF c = "y" THEN rows[i].y
            ELSE rows[i].Line]]

(* sixteen measurements of one glass on one day: a subgroup size without   *)
(* chart constants                                                         *)
sheet_of_sixteen ==
    sheet([i \in 1..16 |-> SheetRow(Val(9), Val(1), Float(5), Val("a"))],
          {"Date", "Glass ID", "y", "Line"})

Sheets ==
    {sheet(rows, columns) :
        rows \in SeqsUpTo(SheetRows, MaxSheetRows),
        columns \in {{"Date", "Glass ID", "y", "Line"}, {"Date", "Glass ID", "y"}}}
        \cup {sheet_of_sixteen}

InitAnalysis ==
    /\ df_subgroups = NoFrame
    /\ cl_x = None /\ ucl_x = None /\ lcl_x = None
    /\ \E l \in RunSpecLimits : usl = l[1] /\ lsl = l[2]
    /\ test_ooc = NoFrame
    /\ init_group_fields
    /\ init_metric_fields
    /\ stdout = <<>>
    /\ dataconfig \in {DataConfig(<<"Date", "Glass ID">>, filters) :
                           filters \in {<<>>, [Line |-> None], [Line |-> Val("a")]}}
    /\ timeconfig = TimeConfig(None, Val("01-01-2024"), Val("04-10-2024"), "1w").ret
    /\ output_prefix = "spc_setup01"
    /\ excel \in Sheets \cup {NoFrame}
    /\ df_raw = NoFrame
    /\ files = {}
    /\ calls = <<>>
    /\ init_batch_fields
    /\ pc = "_load_data"

SpecAnalysis == InitAnalysis /\ [][NextAnalysis]_vars

----------------------------------------------------------------------------
(* spc/spc_process.py: main, the command spc.  sys_argv holds the          *)
(* arguments after the name of the program.                                *)

(* The files of the working directory when the command starts: the JSON    *)
(* text of each configuration file.  nokey.json lacks the key TimeConfig;  *)
(* the two 2y files have a date range that is no token, the second with    *)
(* both dates given; the name of the last file is so long that the name of *)
(* its output directory exceeds the limit of the file system.              *)
json_config(data_file, start_date, end_date, date_range) ==
    [DataConfig  |-> [filename |-> data_file],
     ChartConfig |-> [usl |-> None, lsl |-> None],
     TimeConfig  |-> [reference_date |-> None, start_date |-> start_date,
                      end_date |-> end_date, date_range |-> date_range]]

json_files ==
    [path \in {"spc_setup01.json", "spc_setup02.json", "other/spc_setup01.json", "nokey.json",
               "spc_setup_2y.json", "spc_setup_2y_window.json", "spc_setup_long_name"} |->
        CASE path = "spc_setup01.json" -> json_config("a.xlsx", None, None, "1m")
          [] path = "spc_setup02.json" -> json_config("b.xlsx", Val("01-10-2024"), None, "1w")
          [] path = "other/spc_setup01.json" -> json_config("c.xlsx", None, None, "1y")
          [] path = "nokey.json" -> [DataConfig |-> [filename |-> "a.xlsx"],
                                     ChartConfig |-> [usl |-> None, lsl |-> None]]
          [] path = "spc_setup_2y.json" -> json_config("a.xlsx", Val("01-10-2024"), None, "2y")
          [] path = "spc_setup_2y_window.json" ->
                 json_config("a.xlsx", Val("01-10-2024"), Val("2024-02-10"), "2y")
          [] path = "spc_setup_long_name" -> json_config("a.xlsx", None, None, "1m")]

(* os.path.basename of a path, and the name of the output directory:       *)
(* os.path.splitext(config_filename)[0].replace('spc_setup', 'spc_output') *)
basename(path) == IF path = "other/spc_setup01.json" THEN "spc_setup01.json" ELSE path

output_dir_name(config_filename) ==
    CASE config_filename = "spc_setup01.json" -> "spc_output01"
      [] config_filename = "spc_setup02.json" -> "spc_output02"
      [] config_filename = "spc_setup_2y.json" -> "spc_output_2y"
      [] config_filename = "spc_setup_2y_window.json" -> "spc_output_2y_window"
      [] config_filename = "spc_setup_long_name" -> "spc_output_long_name"
      [] OTHER -> "nokey"

(* os.makedirs(name, exist_ok=True): OSError (File name too long) for a    *)
(* name of more than 255 bytes                                             *)
makedirs(fs, name, config_filename) ==
    IF name = "spc_output_long_name" THEN Raise("OSError")
    ELSE Return(fs \cup {[name |-> <<name>>, kind |-> "directory", run |-> config_filename]})

(* glob.glob(pattern): the matching files, in an order that the library    *)
(* does not fix                                                            *)
glob(pattern) ==
    IF pattern = "spc_setup0*.json"
    THEN {<<"spc_setup01.json", "spc_setup02.json">>, <<"spc_setup02.json", "spc_setup01.json">>}
    ELSE {<<>>}

(* spc/config.py, load_json_config                                         *)
load_json_config(filepath) ==
    IF filepath \notin DOMAIN json_files THEN Raise("FileNotFoundError")
    ELSE IF ~({"DataConfig", "TimeConfig", "ChartConfig"} \subseteq DOMAIN json_files[filepath])
    THEN Raise("Exception")
    ELSE Return(json_files[filepath])

(* SpcDataProcessor called with keywords, processor.py line 70: the four   *)
(* parameters of __init__                                                  *)
(* have no default and no other keyword is accepted                        *)
SpcDataProcessor(kwargs) ==
    IF kwargs = {"dataconfig", "chartconfig", "timeconfig", "output_prefix"}
    THEN Return(kwargs)
    ELSE Raise("TypeError")

(* lines 31-48                                                             *)
main_arguments ==
    /\ pc = "main"
    /\ \E paths \in (IF Len(sys_argv) = 0 THEN {<<>>}
                     ELSE IF sys_argv[1] \in {"spc_setup0*.json", "*.yaml"} THEN glob(sys_argv[1])
                     ELSE {sys_argv}) :
           /\ input_file_paths' = paths
           /\ IF paths = <<>>
              THEN /\ stdout' = stdout
                                  \o (IF Len(sys_argv) > 0 THEN <<"Warning: No files found">> ELSE <<>>)
                                  \o <<"Error: Please provide one or more JSON configuration files">>
                   /\ pc' = "exit 0"
                   /\ UNCHANGED file_path
              ELSE /\ stdout' = Append(stdout, "Found configuration file(s) to process")
                   /\ pc' = "for file_path"
                   /\ file_path' = 1
    /\ UNCHANGED <<df_subgroups, cl_x, ucl_x, lcl_x, usl, lsl, test_ooc>>
    /\ UNCHANGED <<group_fields, metric_fields, run_fields>>
    /\ UNCHANGED <<sys_argv, config_files_to_process, config_item>>

(* lines 51-83: one pass of the loop over input_file_paths, and the lines  *)
(* after the loop when it was the last pass                                *)
main_load ==
    /\ pc = "for file_path"
    /\ \E path \in {input_file_paths[file_path]} :
       \E config_data \in {load_json_config(path)} :
       \E time_cfg \in {IF Raises(config_data) THEN config_data
                         ELSE TimeConfig(config_data.ret.TimeConfig.reference_date,
                                         config_data.ret.TimeConfig.start_date,
                                         config_data.ret.TimeConfig.end_date,
                                         config_data.ret.TimeConfig.date_range)} :
       \E loaded \in {IF Raises(time_cfg) THEN config_files_to_process
                       ELSE Append(config_files_to_process,
                                   [data_cfg  |-> config_data.ret.DataConfig,
                                    chart_cfg |-> config_data.ret.ChartConfig,
                                    time_cfg  |-> time_cfg.ret,
                                    filename  |-> basename(path)])} :
           /\ config_files_to_process' = loaded
           /\ calls' = calls \o <<"load_json_config", path>>
           /\ \E line \in {IF Raises(time_cfg)
                            THEN "!!! CRITICAL FAILURE: Could not load or validate file"
                            ELSE "Loaded"} :
                  IF file_path < Len(input_file_paths)
                  THEN /\ file_path' = file_path + 1
                       /\ stdout' = Append(stdout, line)
                       /\ pc' = "for file_path"
                       /\ UNCHANGED config_item
                  ELSE IF loaded = <<>>
                  THEN /\ stdout' = stdout \o <<line, "No valid configurations found to process. Exiting.">>
                       /\ pc' = "exit 0"
                       /\ UNCHANGED <<file_path, config_item>>
                  ELSE /\ stdout' = stdout \o <<line, "Starting batch process">>
                       /\ pc' = "for config_item"
                       /\ config_item' = 1
                       /\ UNCHANGED file_path
    /\ UNCHANGED <<df_subgroups, cl_x, ucl_x, lcl_x, usl, lsl, test_ooc>>
    /\ UNCHANGED <<group_fields, metric_fields>>
    /\ UNCHANGED <<dataconfig, timeconfig, output_prefix, excel, df_raw, files>>
    /\ UNCHANGED <<sys_argv, input_file_paths>>

(* lines 85-129: one pass of the loop over config_files_to_process, and    *)
(* the lines after the loop when it was the last pass.  The directory is   *)
(* made before the try statement; the processor is constructed with the    *)
(* keyword output_dir.                                                     *)
main_run ==
    /\ pc = "for config_item"
    /\ \E config_filename \in {config_files_to_process[config_item].filename} :
       \E made \in {IF \E f \in files : f.name = <<output_dir_name(config_filename)>>
                     THEN Return(files)
                     ELSE makedirs(files, output_dir_name(config_filename), config_filename)} :
           IF Raises(made)
           THEN /\ pc' = made.raise
                /\ calls' = calls \o <<"os.makedirs", config_filename>>
                /\ UNCHANGED <<files, stdout, config_item, dataconfig, timeconfig>>
           ELSE /\ files' = made.ret
                /\ calls' = calls \o <<"SpcDataProcessor", config_filename>>
                /\ \E processor \in {SpcDataProcessor({"dataconfig", "chartconfig",
                                                       "timeconfig", "output_dir"})} :
                       IF Raises(processor)
                       THEN /\ \E lines \in {(IF made.ret = files THEN <<>>
                                              ELSE <<"Created output directory">>)
                                             \o <<"STARTING ANALYSIS",
                                                  "!!! CRITICAL FAILURE: Analysis failed">>} :
                                IF config_item < Len(config_files_to_process)
                                THEN /\ config_item' = config_item + 1
                                     /\ stdout' = stdout \o lines
                                     /\ pc' = "for config_item"
                                ELSE /\ stdout' = stdout \o lines
                                                     \o <<"All scheduled analyses completed.">>
                                     /\ pc' = "exit 0"
                                     /\ UNCHANGED config_item
                            /\ UNCHANGED <<dataconfig, timeconfig>>
                       ELSE /\ dataconfig' = config_files_to_process[config_item].data_cfg
                            /\ timeconfig' = config_files_to_process[config_item].time_cfg
                            /\ stdout' = Append(stdout, "STARTING ANALYSIS")
                            /\ pc' = "_load_data"
                            /\ UNCHANGED config_item
    /\ UNCHANGED <<df_subgroups, cl_x, ucl_x, lcl_x, usl, lsl, test_ooc>>
    /\ UNCHANGED <<group_fields, metric_fields>>
    /\ UNCHANGED <<output_prefix, excel, df_raw>>
    /\ UNCHANGED <<sys_argv, input_file_paths, config_files_to_process, file_path>>

(* the command lines of at most MaxArgs arguments                          *)
Arguments ==
    (DOMAIN json_files \ {"spc_setup_2y.json"}) \cup {"missing.json", "spc_setup0*.json", "*.yaml"}

InitBatch ==
    /\ df_subgroups = NoFrame
    /\ cl_x = None /\ ucl_x = None /\ lcl_x = None
    /\ usl = None /\ lsl = None
    /\ test_ooc = NoFrame
    /\ init_group_fields
    /\ init_metric_fields
    /\ stdout = <<>>
    /\ init_run_fields
    /\ sys_argv \in SeqsUpTo(Arguments, MaxArgs) \cup {<<>>}
    /\ input_file_paths = <<>>
    /\ config_files_to_process = <<>>
    /\ file_path = 0
    /\ config_item = 0
    /\ pc = "main"

SpecBatch == InitBatch /\ [][main_arguments \/ main_load \/ main_run]_vars


(* runs over subgroups of one size n, for every n up to MaxN               *)
MetricBlocks(n) ==
    {constant_block(n, 5), constant_block(n, 8), spread_block(n, 5), spread_block(n, 8)}
        \cup (IF n = 1 THEN {<<6>>} ELSE {})

InitMetrics == InitRun(UNION {SeqsFrom2(MetricBlocks(n), MaxRows) : n \in 1..MaxN}, RunSpecLimits)

SpecMetrics == InitMetrics /\ [][NextRun]_vars

(* calculate_cpk applied to specification limits, a centre and a process   *)
(* sigma                                                                   *)
InitCpk ==
    /\ usl \in {None, Float(0), Float(10)}
    /\ lsl \in {None, Float(0), Float(10)}
    /\ cl_x \in {Float(2), Float(5), Float(8), Float(12)}
    /\ process_sigma \in {Float(-1), Float(0), Float(1), Float(2), Val(Frac(1, 2))}
    /\ ucl_x = None /\ lcl_x = None
    /\ cp = None /\ cpk = None
    /\ cl_v = None /\ ucl_v = None /\ lcl_v = None
    /\ ooc_points_v = NoFrame
    /\ variability_chart_type = "" /\ central_tendency_chart_type = ""
    /\ df_subgroups = NoFrame
    /\ init_group_fields
    /\ test_ooc = NoFrame
    /\ stdout = <<>>
    /\ init_run_fields
    /\ init_batch_fields
    /\ pc = "calculate_cpk"

call_calculate_cpk ==
    /\ pc = "calculate_cpk"
    /\ \E r \in {calculate_cpk(usl, lsl, cl_x, process_sigma)} :
           /\ cp' = r.ret[1]
           /\ cpk' = r.ret[2]
           /\ stdout' = stdout \o r.out
    /\ pc' = "return"
    /\ UNCHANGED <<df_subgroups, cl_x, ucl_x, lcl_x, usl, lsl, test_ooc, group_fields>>
    /\ UNCHANGED <<process_sigma, cl_v, ucl_v, lcl_v, ooc_points_v>>
    /\ UNCHANGED <<variability_chart_type, central_tendency_chart_type>>
    /\ UNCHANGED <<run_fields, batch_fields>>

SpecCpk == InitCpk /\ [][call_calculate_cpk]_vars

(* check_ooc applied to a subgroup table and a pair of limits: the column  *)
(* of the variability chart holds values below, on, between and above      *)
(* LCL = 1 and UCL = 3, and missing values; the means number the rows      *)
OocValues == {NaN, Float(0), Float(1), Float(2), Float(3), Float(4)}

InitOoc ==
    /\ df_subgroups \in
           {[mean |-> [i \in 1..Len(s) |-> Float(i)], moving_range |-> s] :
               s \in SeqsUpTo(OocValues, MaxLenOoc)}
    /\ ucl_v = Float(3) /\ lcl_v = Float(1)
    /\ cl_v = Float(2)
    /\ cl_x = None /\ ucl_x = None /\ lcl_x = None
    /\ usl = None /\ lsl = None
    /\ process_sigma = Float(0)
    /\ cp = None /\ cpk = None
    /\ ooc_points_v = NoFrame
    /\ variability_chart_type = "MR" /\ central_tendency_chart_type = "I"
    /\ init_group_fields
    /\ test_ooc = NoFrame
    /\ stdout = <<>>
    /\ init_run_fields
    /\ init_batch_fields
    /\ pc = "check_ooc"

call_check_ooc ==
    /\ pc = "check_ooc"
    /\ ooc_points_v' = check_ooc(df_subgroups, "moving_range", ucl_v, lcl_v)
    /\ pc' = "return"
    /\ UNCHANGED <<df_subgroups, cl_x, ucl_x, lcl_x, usl, lsl, test_ooc, group_fields>>
    /\ UNCHANGED <<process_sigma, cp, cpk, cl_v, ucl_v, lcl_v>>
    /\ UNCHANGED <<variability_chart_type, central_tendency_chart_type, stdout>>
    /\ UNCHANGED <<run_fields, batch_fields>>

SpecOoc == InitOoc /\ [][call_check_ooc]_vars

----------------------------------------------------------------------------
(* Vocabulary of the properties                                            *)

x == df_subgroups["mean"]

N == Len(x)

Has(c) == c \in DOMAIN test_ooc

Flag(c, i) == test_ooc[c][i]

(* sigma of the plotted statistic as the design derives it                 *)
Sigma == (ucl_x[1] - cl_x[1]) \div 3

CL == cl_x[1]

(* number of points j in a..b that satisfy P                               *)
Count(P(_), a, b) == Cardinality({j \in a..b : P(j)})

Above2(j) == x[j] > CL + 2 * Sigma

Below2(j) == x[j] < CL - 2 * Sigma

Above1(j) == x[j] > CL + Sigma

Below1(j) == x[j] < CL - Sigma

Beyond1(j) == Above1(j) \/ Below1(j)

Within1(j) == ~Beyond1(j)

(* the window of 3 points starting at w has 2 points beyond 2 sigma on one side *)
Qualifies5(w) == Count(Above2, w, w + 2) >= 2 \/ Count(Below2, w, w + 2) >= 2

(* the window of 5 points starting at w has 4 points beyond 1 sigma on one side *)
Qualifies6(w) == Count(Above1, w, w + 4) >= 4 \/ Count(Below1, w, w + 4) >= 4

(* the 15 points starting at w are all within 1 sigma of CL                *)
Qualifies7(w) == \A j \in w..(w + 14) : Within1(j)

(* the 8 points starting at w are all beyond 1 sigma, on both sides        *)
Qualifies8(w) ==
    /\ \A j \in w..(w + 7) : Beyond1(j)
    /\ \E j \in w..(w + 7) : Above1(j)
    /\ \E j \in w..(w + 7) : Below1(j)

(* point i lies in a complete window of the given width that qualifies     *)
InWindow(Q(_), width, i) ==
    \E w \in 1..(N - width + 1) : i \in w..(w + width - 1) /\ Q(w)

----------------------------------------------------------------------------
(* C1: Rule 5 flags a point if and only if the point belongs to a window   *)
(* of 3 consecutive points of which at least 2 lie beyond 2 sigma from CL  *)
(* on the same side.                                                       *)
C1_Rule5Placement ==
    Has("Rule 5") =>
        \A i \in 1..N : Flag("Rule 5", i) <=> InWindow(Qualifies5, 3, i)

(* C2: Rule 6 flags a point if and only if the point belongs to a window   *)
(* of 5 consecutive points of which at least 4 lie beyond 1 sigma from CL  *)
(* on the same side.                                                       *)
C2_Rule6Placement ==
    Has("Rule 6") =>
        \A i \in 1..N : Flag("Rule 6", i) <=> InWindow(Qualifies6, 5, i)

(* the fewest points with which each rule can be satisfied                 *)
MinPoints ==
    [c \in {"Rule 2", "Rule 3", "Rule 4", "Rule 5", "Rule 6", "Rule 7", "Rule 8"} |->
        CASE c = "Rule 2" -> 9
          [] c = "Rule 3" -> 6
          [] c = "Rule 4" -> 14
          [] c = "Rule 5" -> 3
          [] c = "Rule 6" -> 5
          [] c = "Rule 7" -> 15
          [] c = "Rule 8" -> 8]

(* C3: a rule among 2..8 flags no point of a sequence that has fewer       *)
(* points than the rule's minimum; Rule 7 flags none of the first 14       *)
(* points and Rule 8 none of the first 7 unless a complete qualifying      *)
(* window contains the point.                                              *)
C3_ShortWindowsNeverFlag ==
    /\ \A c \in DOMAIN MinPoints :
          (Has(c) /\ N < MinPoints[c]) => \A i \in 1..N : ~Flag(c, i)
    /\ Has("Rule 7") =>
          \A i \in 1..N : (i <= 14 /\ Flag("Rule 7", i)) => InWindow(Qualifies7, 15, i)
    /\ Has("Rule 8") =>
          \A i \in 1..N : (i <= 7 /\ Flag("Rule 8", i)) => InWindow(Qualifies8, 8, i)

(* C4: Rule 7 flags all 15 points of every window of 15 consecutive points *)
(* that lie within 1 sigma of CL, and no point outside every such window.  *)
C4_Rule7Placement ==
    Has("Rule 7") =>
        \A i \in 1..N : Flag("Rule 7", i) <=> InWindow(Qualifies7, 15, i)

(* C5: Rule 8 flags exactly the points of the windows of 8 consecutive     *)
(* points that all lie beyond 1 sigma with at least one above and at least *)
(* one below.                                                              *)
C5_Rule8Placement ==
    Has("Rule 8") =>
        \A i \in 1..N : Flag("Rule 8", i) <=> InWindow(Qualifies8, 8, i)

(* C6: for a sequence of 8 points that all lie beyond 1 sigma on the same  *)
(* side of CL, Rule 8 flags no point.                                      *)
C6_Rule8NeedsBothSides ==
    (/\ Has("Rule 8")
     /\ N = 8
     /\ (\A j \in 1..N : Above1(j)) \/ (\A j \in 1..N : Below1(j)))
    => \A i \in 1..N : ~Flag("Rule 8", i)

(* number of points of the longest strictly increasing (dir = 1) or        *)
(* strictly decreasing (dir = -1) stretch of consecutive points ending at i *)
RECURSIVE MonotonicRun(_, _)
MonotonicRun(i, dir) ==
    IF i > 1 /\ sign(x[i] - x[i - 1]) = dir THEN MonotonicRun(i - 1, dir) + 1 ELSE 1

(* C7: Rule 3 flags a point if and only if it is the 6th or a later point  *)
(* of a run of strictly increasing or strictly decreasing consecutive      *)
(* points; equal consecutive values end the run.                           *)
C7_Rule3FromSixthPoint ==
    Has("Rule 3") =>
        \A i \in 1..N :
            Flag("Rule 3", i) <=> (MonotonicRun(i, 1) >= 6 \/ MonotonicRun(i, -1) >= 6)

(* the points a..b alternate in direction: every successive difference is  *)
(* non-zero and of the opposite sign of the difference before it           *)
Alternates(a, b) ==
    /\ \A j \in (a + 1)..b : x[j] # x[j - 1]
    /\ \A j \in (a + 2)..b : sign(x[j] - x[j - 1]) = -sign(x[j - 1] - x[j - 2])

(* C8: Rule 4 flags a point if and only if it is the last of 14            *)
(* consecutive points that alternate in direction.                         *)
C8_Rule4FourteenthPoint ==
    Has("Rule 4") =>
        \A i \in 1..N : Flag("Rule 4", i) <=> (i >= 14 /\ Alternates(i - 13, i))

(* number of consecutive points ending at i that lie strictly on the side  *)
(* of CL on which x[i] lies (x[i] # CL)                                    *)
RECURSIVE StrictSideRun(_)
StrictSideRun(i) ==
    IF i > 1 /\ sign(x[i - 1] - CL) = sign(x[i] - CL)
    THEN StrictSideRun(i - 1) + 1 ELSE 1

(* C9 as stated: of a run of consecutive points on the same side of CL     *)
(* (strictly above or strictly below) Rule 2 flags the 9th and every later *)
(* point and none of the first 8.                                          *)
C9_Rule2StrictSides ==
    Has("Rule 2") =>
        \A i \in 1..N :
            x[i] # CL => (Flag("Rule 2", i) <=> StrictSideRun(i) >= 9)

(* the side of CL, a point equal to CL counted below                       *)
SideOf(v) == IF v > CL THEN "above" ELSE "below"

RECURSIVE SideRun(_)
SideRun(i) ==
    IF i > 1 /\ SideOf(x[i - 1]) = SideOf(x[i]) THEN SideRun(i - 1) + 1 ELSE 1

(* C9 amended: with a point equal to CL counted on the below-CL side,      *)
(* Rule 2 flags the 9th and every later point of a run of consecutive      *)
(* points on the same side of CL and none of the first 8 points of a run.  *)
C9_Rule2RunFromNinth ==
    Has("Rule 2") =>
        \A i \in 1..N : Flag("Rule 2", i) <=> SideRun(i) >= 9

(* a run of 10 points not above CL that contains a point equal to CL: the  *)
(* 9th and 10th are flagged, the 8th is not                                *)
C9_Witness ==
    /\ pc = "return"
    /\ Has("Rule 2")
    /\ N = 10
    /\ \A j \in 1..N : x[j] <= CL
    /\ \E j \in 1..N : x[j] = CL
    /\ \E j \in 1..N : x[j] < CL
    /\ Flag("Rule 2", 9)
    /\ Flag("Rule 2", 10)
    /\ ~Flag("Rule 2", 8)

(* the OOS classification of row i agrees with the absent-limit rule       *)
AbsentLimitRule(oos, i) ==
    /\ (usl = None /\ lsl # None) => (oos <=> x[i] < lsl[1])
    /\ (lsl = None /\ usl # None) => (oos <=> x[i] > usl[1])
    /\ (usl = None /\ lsl = None) => ~oos

(* C10: with USL absent a point is OOS exactly when it is strictly below   *)
(* LSL, with LSL absent exactly when it is strictly above USL, with both   *)
(* absent never; the classification yields a flag for every row.           *)
C10_OOSAbsentLimit ==
    /\ pc = "_generate_report" =>
          /\ Has("OOS")
          /\ Len(test_ooc["OOS"]) = N
          /\ \A i \in 1..N : AbsentLimitRule(Flag("OOS", i), i)
    /\ LET df == check_oos(df_subgroups, "mean", usl, lsl)
       IN  /\ Len(df["OOS"]) = N
           /\ \A i \in 1..N : AbsentLimitRule(df["OOS"][i], i)

(* USL absent, LSL present: a point below LSL is flagged, a point equal to *)
(* LSL and a point far above every limit are not                           *)
C10_Witness ==
    /\ pc = "_generate_report"
    /\ usl = None
    /\ lsl = Val(-2)
    /\ \E i \in 1..N : x[i] = -3 /\ Flag("OOS", i)
    /\ \E i \in 1..N : x[i] = -2 /\ ~Flag("OOS", i)
    /\ \E i \in 1..N : x[i] = 4 /\ ~Flag("OOS", i)

----------------------------------------------------------------------------
(* What the rule functions flag, stated in the vocabulary of the claims.   *)
(* Each holds under the specification of its rule.                         *)

(* Rule 5 flags the last point of a qualifying window and the 2 points     *)
(* after it (SpecRule5)                                                    *)
Observed_Rule5 ==
    Has("Rule 5") =>
        \A i \in 1..N :
            Flag("Rule 5", i) <=>
                \E w \in 1..(N - 2) : Qualifies5(w) /\ i \in (w + 2)..(w + 4)

(* Rule 6 flags the last point of a qualifying window and the 4 points     *)
(* after it (SpecRule6)                                                    *)
Observed_Rule6 ==
    Has("Rule 6") =>
        \A i \in 1..N :
            Flag("Rule 6", i) <=>
                \E w \in 1..(N - 4) : Qualifies6(w) /\ i \in (w + 4)..(w + 8)

(* Rule 7 flags the first 14 points and the last point of each qualifying  *)
(* window (SpecRule7)                                                      *)
Observed_Rule7 ==
    Has("Rule 7") =>
        \A i \in 1..N : Flag("Rule 7", i) <=> (i <= 14 \/ Qualifies7(i - 14))

(* Rule 8 flags the first 14 points, the last point of each qualifying     *)
(* window and the 7 points after it (SpecRule8)                            *)
Observed_Rule8 ==
    Has("Rule 8") =>
        \A i \in 1..N :
            Flag("Rule 8", i) <=>
                \/ i <= 14
                \/ \E w \in 1..(N - 7) : Qualifies8(w) /\ i \in (w + 7)..(w + 14)

(* Rule 3 flags from the 7th point of a monotonic run (SpecRule3)          *)
Observed_Rule3 ==
    Has("Rule 3") =>
        \A i \in 1..N :
            Flag("Rule 3", i) <=> (MonotonicRun(i, 1) >= 7 \/ MonotonicRun(i, -1) >= 7)

(* Rule 4 flags the last of 15 alternating points (SpecRule4)              *)
Observed_Rule4 ==
    Has("Rule 4") =>
        \A i \in 1..N : Flag("Rule 4", i) <=> (i >= 15 /\ Alternates(i - 14, i))

----------------------------------------------------------------------------
(* the window starting at w reaches the count of Rule 5 (Rule 6) only when *)
(* the points above and the points below are added together                *)
MixedOnly5(w) == Count(Above2, w, w + 2) + Count(Below2, w, w + 2) >= 2 /\ ~Qualifies5(w)

MixedOnly6(w) == Count(Above1, w, w + 4) + Count(Below1, w, w + 4) >= 4 /\ ~Qualifies6(w)

(* C11: Rules 5 and 6 count each side separately: every flag of Rule 5     *)
(* (Rule 6) comes from a window of 3 (5) points of which 2 (4) lie beyond  *)
(* 2 (1) sigma on the same side, the flagged point being in that window or *)
(* among the rows that follow it within the window's width; a sequence     *)
(* whose windows reach the count only with both sides added has no flag.   *)
C11_SameSideOnly ==
    /\ Has("Rule 5") =>
          \A i \in 1..N :
              Flag("Rule 5", i) =>
                  \E w \in 1..(N - 2) : Qualifies5(w) /\ i \in w..(w + 4)
    /\ Has("Rule 6") =>
          \A i \in 1..N :
              Flag("Rule 6", i) =>
                  \E w \in 1..(N - 4) : Qualifies6(w) /\ i \in w..(w + 8)

(* a table with a window that reaches the count of Rule 6 only with both   *)
(* sides added, no window that qualifies on one side, and no flag          *)
C11_Witness ==
    /\ pc = "return"
    /\ Has("Rule 6")
    /\ \E w \in 1..(N - 4) : MixedOnly6(w)
    /\ \A w \in 1..(N - 4) : ~Qualifies6(w)
    /\ \A i \in 1..N : ~Flag("Rule 6", i)

(* C12: Rule 1 flags a point if and only if its value is strictly greater  *)
(* than UCL or strictly less than LCL.                                     *)
C12_Rule1Strict ==
    Has("Rule 1") =>
        \A i \in 1..N :
            Flag("Rule 1", i) <=> (x[i] > ucl_x[1] \/ x[i] < lcl_x[1])

(* a point equal to UCL = 3 that is not flagged next to a point one unit   *)
(* above UCL that is flagged, and a point equal to LCL that is not flagged *)
C12_Witness ==
    /\ pc = "_generate_report"
    /\ ucl_x = Val(3)
    /\ lcl_x = Val(-3)
    /\ \E i \in 1..N : x[i] = 3 /\ ~Flag("Rule 1", i)
    /\ \E i \in 1..N : x[i] = 4 /\ Flag("Rule 1", i)
    /\ \E i \in 1..N : x[i] = -3 /\ ~Flag("Rule 1", i)

----------------------------------------------------------------------------
(* Vocabulary of the claims about a run                                    *)

(* the table of all subgroups, as grouping produces it                     *)
AllSubgroups == subgroup_table(df_processed, dataconfig.grouping_keys)

Dominant == highest_frequnecy_subgroup_size

Grouped == pc \in {"_calculate_metrics", "_check_nelson", "_generate_report", "TypeError"}

Measured == pc \in {"_check_nelson", "_generate_report", "TypeError"}

Evaluated == pc \in {"_generate_report", "TypeError"}

Rows(df, c) == 1..Len(df[c])

(* positions in the table T of the subgroups of size n, and of all         *)
Positions(T, n) == {i \in Rows(T, "size") : T["size"][i] = n}

Everything(T) == Rows(T, "size")

(* the j-th smallest element of a set of positions                         *)
Nth(S, j) == CHOOSE i \in S : Cardinality({k \in S : k <= i}) = j

(* df holds exactly the subgroups of T at the positions S, in their order  *)
HoldsExactly(df, T, S) ==
    \A c \in DOMAIN T :
        /\ c \in DOMAIN df
        /\ Len(df[c]) = Cardinality(S)
        /\ \A j \in 1..Cardinality(S) : df[c][j] = T[c][Nth(S, j)]

(* the column c of the subgroups of T at the positions S                   *)
ColumnOf(T, S, c) == [j \in 1..Cardinality(S) |-> T[c][Nth(S, j)]]

(* Cp and Cpk written out                                                  *)
CpOf(u, l, sigma) == f_div(f_sub(u, l), f_mul(Float(6), sigma))

CplOf(l, center, sigma) == f_div(f_sub(center, l), f_mul(Float(3), sigma))

CpuOf(u, center, sigma) == f_div(f_sub(u, center), f_mul(Float(3), sigma))

IsSmallerOf(v, a, b) == (v = a \/ v = b) /\ f_le(v, a) /\ f_le(v, b)

(* the capability fields are those of the centre and the sigma given       *)
CapabilityFrom(center, sigma) ==
    IF usl = None \/ lsl = None \/ f_le(sigma, Float(0))
    THEN cp = None /\ cpk = None
    ELSE /\ cp = CpOf(usl, lsl, sigma)
         /\ IsSmallerOf(cpk, CplOf(lsl, center, sigma), CpuOf(usl, center, sigma))

(* the rule columns of test_ooc are those of the rule functions applied to *)
(* a column of means                                                       *)
RuleColumns == {"Rule 1", "Rule 2", "Rule 3", "Rule 4", "Rule 5", "Rule 6", "Rule 7", "Rule 8", "OOS"}

RuleFlagsFrom(means) ==
    \A flagged \in {check_nelson_floats([mean |-> means], cl_x, ucl_x, lcl_x, usl, lsl)} :
        \A c \in RuleColumns : c \in DOMAIN test_ooc /\ test_ooc[c] = flagged[c]

(* C13: when the dominant size is greater than 1 it is a most frequent     *)
(* subgroup size, the valid table holds exactly the subgroups of that size *)
(* in their original order and the invalid table exactly the others, up to *)
(* the report; the central limits, the process sigma, the capability       *)
(* indices and the rule flags are those of the valid subgroups alone.      *)
C13_InvalidPartition ==
    (Grouped /\ Dominant > 1) =>
        \A T \in {AllSubgroups} : \A V \in {Positions(T, Dominant)} :
            /\ \A i \in Everything(T) :
                  Cardinality(Positions(T, T["size"][i])) <= Cardinality(V)
            /\ HoldsExactly(df_subgroups, T, V)
            /\ HoldsExactly(invalid_groups, T, Everything(T) \ V)
            /\ Measured =>
                  \A center \in {series_mean(ColumnOf(T, V, "mean"))},
                     sbar \in {series_mean(ColumnOf(T, V, "std"))},
                     rbar \in {series_mean(ColumnOf(T, V, "range"))} :
                      /\ cl_x = center
                      /\ process_sigma = sbar
                      /\ ucl_x = f_add(center, f_mul(A3_TABLE[Dominant], sbar))
                      /\ lcl_x = f_sub(center, f_mul(A3_TABLE[Dominant], sbar))
                      /\ cl_v = rbar
                      /\ ucl_v = f_mul(D4_TABLE[Dominant], rbar)
                      /\ lcl_v = f_mul(D3_TABLE[Dominant], rbar)
                      /\ CapabilityFrom(center, sbar)
            /\ Evaluated => RuleFlagsFrom(ColumnOf(T, V, "mean"))

(* the subgroups have the sizes 5, 5, 5, 4, 5: the dominant size is 5, the *)
(* invalid table holds the one subgroup of size 4, the capability indices  *)
(* are computed and the rules are evaluated                                *)
C13_Witness ==
    /\ pc = "_generate_report"
    /\ AllSubgroups["size"] = <<5, 5, 5, 4, 5>>
    /\ Dominant = 5
    /\ invalid_groups["size"] = <<4>>
    /\ df_subgroups["size"] = <<5, 5, 5, 5>>
    /\ cp # None
    /\ f_gt(process_sigma, Float(0))

Assigned == <<cl_x, ucl_x, lcl_x, process_sigma, cp, cpk, cl_v, ucl_v, lcl_v, ooc_points_v, variability_chart_type, central_tendency_chart_type>>

(* C14: for a dominant size outside [1, 15] the limit calculation prints   *)
(* the unsupported-size error and assigns no centre line, control limit,   *)
(* process sigma, chart type or capability field.                          *)
C14_UnsupportedSize ==
    [][(pc = "_calculate_metrics" /\ Dominant \notin 1..15) =>
          /\ UNCHANGED Assigned
          /\ stdout' = Append(stdout, "Error calculating control limits: Subgroup size is not supported")]_vars

(* after the limit calculation of a run over subgroups of 16 values every  *)
(* field is as the constructor left it and the error is printed            *)
C14_Witness ==
    /\ pc = "_check_nelson"
    /\ Dominant = 16
    /\ Len(df_subgroups["size"]) >= 2
    /\ cl_x = None /\ ucl_x = None /\ lcl_x = None
    /\ process_sigma = Float(0)
    /\ cp = None /\ cpk = None
    /\ central_tendency_chart_type = "" /\ variability_chart_type = ""
    /\ stdout = <<"Error calculating control limits: Subgroup size is not supported">>

MRBar == series_mean(df_subgroups["moving_range"])

(* C15: the chart variant and its factors by dominant size n.  n = 1: I    *)
(* chart with MR chart, D3 = 0, D4 = 3.268, sigma = mean(moving_range) /   *)
(* 1.128; 2 <= n < 10: X-bar with R chart, D3(n) and D4(n); 10 <= n <= 15: *)
(* X-bar with S chart, B3(n) and B4(n); for n >= 2 the central limits are  *)
(* CL +/- A3(n) * S-bar and the process sigma is S-bar.                    *)
C15_VariantSelection ==
    (Measured /\ Dominant \in 1..15) =>
        LET n    == Dominant
            sbar == series_mean(df_subgroups["std"])
            rbar == series_mean(df_subgroups["range"])
        IN  /\ cl_x = series_mean(df_subgroups["mean"])
            /\ n = 1 =>
                  /\ central_tendency_chart_type = "I"
                  /\ variability_chart_type = "MR"
                  /\ process_sigma = f_div(MRBar, Milli(1128))
                  /\ ucl_x = f_add(cl_x, f_mul(Float(3), process_sigma))
                  /\ lcl_x = f_sub(cl_x, f_mul(Float(3), process_sigma))
                  /\ cl_v = MRBar
                  /\ ucl_v = f_mul(Milli(3268), MRBar)
                  /\ lcl_v = Float(0)
            /\ n >= 2 =>
                  /\ central_tendency_chart_type = "X"
                  /\ process_sigma = sbar
                  /\ ucl_x = f_add(cl_x, f_mul(A3_TABLE[n], sbar))
                  /\ lcl_x = f_sub(cl_x, f_mul(A3_TABLE[n], sbar))
            /\ (n >= 2 /\ n < 10) =>
                  /\ variability_chart_type = "R"
                  /\ cl_v = rbar
                  /\ ucl_v = f_mul(D4_TABLE[n], rbar)
                  /\ lcl_v = f_mul(D3_TABLE[n], rbar)
            /\ n >= 10 =>
                  /\ variability_chart_type = "S"
                  /\ cl_v = sbar
                  /\ ucl_v = f_mul(B4_TABLE[n], sbar)
                  /\ lcl_v = f_mul(B3_TABLE[n], sbar)

(* a run over subgroups of 10 values with a positive S-bar: the first size *)
(* of the S chart, with B3(10) = 0.284 and B4(10) = 1.716                  *)
C15_Witness ==
    /\ pc = "_check_nelson"
    /\ Dominant = 10
    /\ variability_chart_type = "S"
    /\ f_gt(process_sigma, Float(0))
    /\ ucl_v = f_mul(Milli(1716), process_sigma)
    /\ lcl_v = f_mul(Milli(284), process_sigma)

(* the variability estimate behind the central limits                      *)
Estimate == IF Dominant = 1 THEN MRBar ELSE series_mean(df_subgroups["std"])

C17_CapabilityDefined ==
    pc = "return" =>
        /\ (usl = None \/ lsl = None \/ f_le(process_sigma, Float(0))) => (cp = None /\ cpk = None)
        /\ (usl # None /\ lsl # None /\ f_gt(process_sigma, Float(0))) => (cp # None /\ cpk # None)
        /\ (cp = None) <=> (cpk = None)

(* both limits present and a process sigma of zero: both indices are None  *)
(* and the warning is printed                                              *)
C17_Witness ==
    /\ pc = "return"
    /\ usl = Float(10) /\ lsl = Float(0)
    /\ process_sigma = Float(0)
    /\ cp = None /\ cpk = None
    /\ stdout = <<"WARNING: Cannot calculate Cp/CpK">>

(* C18: with both limits and sigma > 0, Cp = (USL - LSL) / (6 sigma) and   *)
(* Cpk is the smaller of (center - LSL) / (3 sigma) and                    *)
(* (USL - center) / (3 sigma); USL = 10, LSL = 0, sigma = 1 give           *)
(* Cp = Cpk = 5/3 at center 5 and Cpk = 2/3 at center 8.                   *)
C18_CapabilityValues ==
    (pc = "return" /\ usl # None /\ lsl # None /\ f_gt(process_sigma, Float(0))) =>
        /\ cp = CpOf(usl, lsl, process_sigma)
        /\ IsSmallerOf(cpk, CplOf(lsl, cl_x, process_sigma), CpuOf(usl, cl_x, process_sigma))
        /\ (usl = Float(10) /\ lsl = Float(0) /\ process_sigma = Float(1)) =>
              /\ cp = Val(Frac(5, 3))
              /\ cl_x = Float(5) => cpk = Val(Frac(5, 3))
              /\ cl_x = Float(8) => cpk = Val(Frac(2, 3))

(* USL = 10, LSL = 0, sigma = 1 and center 8: Cp = 5/3 and Cpk = 2/3       *)
C18_Witness ==
    /\ pc = "return"
    /\ usl = Float(10) /\ lsl = Float(0)
    /\ process_sigma = Float(1)
    /\ cl_x = Float(8)
    /\ cp = Val(Frac(5, 3))
    /\ cpk = Val(Frac(2, 3))

(* the moving range of the j-th row of df: null for j = 1, else the        *)
(* absolute difference of its mean and the mean of the row before it       *)
MovingRangeIn(df, j) ==
    IF j = 1 THEN NaN ELSE f_abs(f_sub(df["mean"][j], df["mean"][j - 1]))

(* C19, as claimed: in the subgroup table handed to the limit computation  *)
(* and the rule evaluation the first subgroup has a null moving_range and  *)
(* every other one the absolute difference between its mean and the mean   *)
(* of the subgroup before it in that table.                                *)
C19_MovingRangeInValidTable ==
    Grouped =>
        \A j \in Rows(df_subgroups, "mean") :
            df_subgroups["moving_range"][j] = MovingRangeIn(df_subgroups, j)

(* C19, amended: the moving range of a subgroup of the handed table is     *)
(* taken in the table of all subgroups, before the invalid ones are        *)
(* removed: null for the first of all subgroups, else the absolute         *)
(* difference between its mean and the mean of the subgroup immediately    *)
(* before it among all subgroups; it is never negative; where no subgroup  *)
(* is removed it is the moving range within the handed table.              *)
C19_MovingRangeBeforeFilter ==
    Grouped =>
        \A T \in {AllSubgroups} :
            \A S \in {IF Dominant > 1 THEN Positions(T, Dominant) ELSE Everything(T)} :
                /\ Len(df_subgroups["moving_range"]) = Cardinality(S)
                /\ \A j \in 1..Cardinality(S) :
                      /\ df_subgroups["moving_range"][j] = MovingRangeIn(T, Nth(S, j))
                      /\ ~f_lt(df_subgroups["moving_range"][j], Float(0))
                /\ S = Everything(T) =>
                      \A j \in Rows(df_subgroups, "mean") :
                          df_subgroups["moving_range"][j] = MovingRangeIn(df_subgroups, j)

(* an invalid subgroup stands between two valid ones of different mean:    *)
(* the first valid subgroup follows an invalid one and has a moving range, *)
(* the moving range of a later one is not the difference to its            *)
(* predecessor in the valid table                                          *)
C19_Witness ==
    /\ pc = "_generate_report"
    /\ Dominant = 5
    /\ AllSubgroups["size"] = <<4, 5, 5, 4, 5>>
    /\ df_subgroups["moving_range"][1] # NaN
    /\ df_subgroups["moving_range"][3] # MovingRangeIn(df_subgroups, 3)
    /\ f_gt(df_subgroups["moving_range"][3], Float(0))

(* C20: when the dominant size is 1 the invalid set is empty, every        *)
(* subgroup stays in the valid table, those of a size greater than 1       *)
(* included, and the I / MR limits and the rule flags are those of all     *)
(* subgroups.                                                              *)
C20_DominantSizeOne ==
    (Grouped /\ Dominant = 1) =>
        \A T \in {AllSubgroups} :
            /\ invalid_groups = DataFrame
            /\ HoldsExactly(df_subgroups, T, Everything(T))
            /\ Measured =>
                  \A center \in {series_mean(T["mean"])}, mrbar \in {series_mean(T["moving_range"])} :
                      /\ central_tendency_chart_type = "I"
                      /\ variability_chart_type = "MR"
                      /\ cl_x = center
                      /\ cl_v = mrbar
                      /\ process_sigma = f_div(mrbar, Milli(1128))
                      /\ ucl_x = f_add(center, f_mul(Float(3), process_sigma))
                      /\ lcl_x = f_sub(center, f_mul(Float(3), process_sigma))
            /\ Evaluated => RuleFlagsFrom(T["mean"])

(* subgroups of the sizes 1, 4, 1: the dominant size is 1, the subgroup of *)
(* 4 values is a row of the table the rules were evaluated on              *)
C20_Witness ==
    /\ pc = "_generate_report"
    /\ Dominant = 1
    /\ AllSubgroups["size"] = <<1, 4, 1>>
    /\ df_subgroups["size"] = <<1, 4, 1>>
    /\ Len(test_ooc["Rule 1"]) = 3
    /\ invalid_groups = DataFrame
    /\ central_tendency_chart_type = "I"

----------------------------------------------------------------------------
(* the points a..b are each below or equal to CL                           *)
NotAbove(a, b) == \A j \in a..b : x[j] <= CL

StrictlyAbove(a, b) == \A j \in a..b : x[j] > CL

(* C29: in nelson_2 a point exactly equal to CL is counted on the below-CL *)
(* side.  A point below or equal to CL is flagged exactly when it and the  *)
(* 8 points before it are each below or equal to CL, so the 9th of 9       *)
(* points equal to CL is flagged; a point above CL is flagged exactly when *)
(* it and the 8 points before it are each strictly above CL, so a point    *)
(* equal to CL breaks a run of points above CL.                            *)
C29_EqualCountsBelow ==
    Has("Rule 2") =>
        \A i \in 1..N :
            /\ (x[i] <= CL) =>
                   (Flag("Rule 2", i) <=> (i >= 9 /\ NotAbove(i - 8, i)))
            /\ (x[i] > CL) =>
                   (Flag("Rule 2", i) <=> (i >= 9 /\ StrictlyAbove(i - 8, i)))

(* 9 points equal to CL: the 9th is flagged, the 8th is not                *)
C29_Witness ==
    /\ pc = "return"
    /\ Has("Rule 2")
    /\ N = 9
    /\ \A j \in 1..N : x[j] = CL
    /\ Flag("Rule 2", 9)
    /\ ~Flag("Rule 2", 8)

----------------------------------------------------------------------------
(* the rows of the table T whose value in column c is present and strictly *)
(* above the upper or strictly below the lower limit                       *)
BeyondLimits(T, c, upper, lower) ==
    {i \in Rows(T, c) :
        /\ T[c][i] # NaN
        /\ \/ over_common(T[c][i][1], upper[1]).a > over_common(T[c][i][1], upper[1]).b
           \/ over_common(T[c][i][1], lower[1]).a < over_common(T[c][i][1], lower[1]).b}

----------------------------------------------------------------------------
(* the rule functions and the OOS flag as _check_nelson calls them, each   *)
(* writing the column named new_column of the table df                     *)
RuleCall(c, df, new_column) ==
    CASE c = "Rule 1" -> nelson_1(df, "mean", ucl_x, lcl_x, new_column)
      [] c = "Rule 2" -> nelson_2(df, "mean", cl_x[1], new_column)
      [] c = "Rule 3" -> nelson_3(df, "mean", new_column)
      [] c = "Rule 4" -> nelson_4(df, "mean", new_column)
      [] c = "Rule 5" -> nelson_5(df, "mean", cl_x[1], ucl_x[1], lcl_x[1], new_column)
      [] c = "Rule 6" -> nelson_6(df, "mean", cl_x[1], ucl_x[1], lcl_x[1], new_column)
      [] c = "Rule 7" -> nelson_7(df, "mean", cl_x[1], ucl_x[1], lcl_x[1], new_column)
      [] c = "Rule 8" -> nelson_8(df, "mean", cl_x[1], ucl_x[1], lcl_x[1], new_column)
      [] c = "OOS"    -> nelson_1(df, "mean", usl, lsl, new_column)

(* the rules and the OOS flag evaluated in the reverse of the order of     *)
(* _check_nelson                                                           *)
ReverseOrder(df) ==
    LET t9 == RuleCall("OOS", df, "OOS")
        t8 == RuleCall("Rule 8", t9, "Rule 8")
        t7 == RuleCall("Rule 7", t8, "Rule 7")
        t6 == RuleCall("Rule 6", t7, "Rule 6")
        t5 == RuleCall("Rule 5", t6, "Rule 5")
        t4 == RuleCall("Rule 4", t5, "Rule 4")
        t3 == RuleCall("Rule 3", t4, "Rule 3")
        t2 == RuleCall("Rule 2", t3, "Rule 2")
    IN  RuleCall("Rule 1", t2, "Rule 1")

(* the table T is the table base with the flag columns added, each flag    *)
(* column is that of its rule evaluated on base alone, and a rule          *)
(* evaluated on T, where the flags of all rules stand, adds one column     *)
(* with the same flags and changes no column of T                          *)
IndependentFlags(T, base) ==
    /\ DOMAIN T = DOMAIN base \cup RuleColumns
    /\ \A c \in DOMAIN base : T[c] = base[c]
    /\ \A c \in RuleColumns :
          /\ \A alone \in {RuleCall(c, base, c)} :
                /\ T[c] = alone[c]
                /\ DOMAIN alone = DOMAIN base \cup {c}
                /\ \A d \in DOMAIN base : alone[d] = base[d]
          /\ \A again \in {RuleCall(c, T, "again")} :
                /\ DOMAIN again = DOMAIN T \cup {"again"}
                /\ again["again"] = T[c]
                /\ \A d \in DOMAIN T : again[d] = T[d]
    /\ ReverseOrder(base) = T

(* C27: each rule function reads only the column of means and the limits,  *)
(* adds exactly its own flag column and leaves every existing column, the  *)
(* flag columns of other rules included, unchanged; Rules 1 to 8 and the   *)
(* OOS flag evaluated in another order give the same flag columns, and the *)
(* valid subgroup table is not modified by the evaluation of the rules.    *)
C27_RuleIndependence ==
    [][pc = "_check_nelson" =>
          /\ df_subgroups' = df_subgroups
          /\ IndependentFlags(test_ooc', df_subgroups)
      ]_vars

(* a point that carries the flags of Rule 1, Rule 2, Rule 3 and OOS at     *)
(* once, and a point with none of these flags                              *)
C27_Witness ==
    /\ pc = "_generate_report"
    /\ \E i \in 1..N :
          /\ Flag("Rule 1", i)
          /\ Flag("Rule 2", i)
          /\ Flag("Rule 3", i)
          /\ Flag("OOS", i)
    /\ \E i \in 1..N : ~Flag("Rule 1", i) /\ ~Flag("Rule 2", i) /\ ~Flag("OOS", i)

----------------------------------------------------------------------------
(* a line of the output of the run                                         *)
Printed(line) == \E i \in 1..Len(stdout) : stdout[i] = line

(* the limit calculation has rejected the subgroup size                    *)
LimitsFailed ==
    Printed("Error calculating control limits: Subgroup size is not supported")

(* grouping has found no data or has produced no subgroup                  *)
GroupingFailed ==
    \/ Printed("Cannot group data. Processed DataFrame is empty.")
    \/ Printed("Cannot group data: no subgroups generated.")

(* C25 as stated: once a stage of a run has failed no later stage of that  *)
(* run is entered; after a limit calculation that rejected the subgroup    *)
(* size neither the evaluation of the Nelson rules nor the report nor the  *)
(* charts start, and after a grouping without subgroups the run is over.   *)
C25_FailureShortCircuits ==
    /\ GroupingFailed => (pc = "return" /\ test_ooc = NoFrame /\ cl_x = None)
    /\ LimitsFailed =>
          /\ test_ooc = NoFrame
          /\ pc \notin {"_generate_report", "_plot_charts", "TypeError"}

----------------------------------------------------------------------------
(* the keys of the rows of a table, none for a table without that column   *)
KeysOf(T) == IF "key" \in DOMAIN T THEN T["key"] ELSE <<>>

(* the number of subgroups, valid or invalid, that hold measurement i      *)
SubgroupsHolding(i) ==
    IF dataconfig.grouping_keys = <<>>
    THEN Cardinality({g \in 1..Len(df_subgroups["mean"]) : g = i})
    ELSE Cardinality({g \in 1..Len(KeysOf(df_subgroups)) :
                         KeysOf(df_subgroups)[g] = df_processed["key"][i]})
         + Cardinality({g \in 1..Len(KeysOf(invalid_groups)) :
                         KeysOf(invalid_groups)[g] = df_processed["key"][i]})

(* the row of df_processed in which the key k is first encountered         *)
FirstEncounter(k) ==
    CHOOSE i \in 1..Len(df_processed["key"]) :
        /\ df_processed["key"][i] = k
        /\ \A j \in 1..(i - 1) : df_processed["key"][j] # k

(* C23: after _group_data has run on a non-empty table the subgroups stand *)
(* in the order in which their keys are first encountered, every           *)
(* measurement is in exactly one subgroup, and without grouping keys the   *)
(* subgroups are the measurements, each of size 1, in input order          *)
C23_EncounterOrderPartition ==
    (pc # "_group_data" /\ Len(df_processed["y"]) > 0) =>
        /\ df_subgroups # NoFrame
        /\ \A i \in 1..Len(df_processed["y"]) : SubgroupsHolding(i) = 1
        /\ dataconfig.grouping_keys # <<>> =>
              \A g, h \in 1..Len(df_subgroups["key"]) :
                  g < h => FirstEncounter(df_subgroups["key"][g])
                             < FirstEncounter(df_subgroups["key"][h])
        /\ dataconfig.grouping_keys = <<>> =>
              /\ df_subgroups["mean"] = df_processed["y"]
              /\ \A g \in 1..Len(df_subgroups["size"]) : df_subgroups["size"][g] = 1

(* the same on tables in which no Glass ID is missing                      *)
C23_NoMissingKey ==
    (\A i \in 1..Len(df_processed["key"]) : df_processed["key"][i] # NaN)
        => C23_EncounterOrderPartition

----------------------------------------------------------------------------
(* the tokens that a date range may be                                     *)
DateRangeTokens ==
    {"1d", "2d", "3d", "4d", "5d", "6d", "1w", "2w", "3w", "1m", "3m", "6m", "1y"}

(* C28: the construction of a TimeConfig whose date_range is not one of    *)
(* the thirteen tokens ends in ValueError, whichever of start_date and     *)
(* end_date are given                                                      *)
C28_UnknownTokenFails ==
    (pc # "TimeConfig" /\ timeconfig.date_range \notin DateRangeTokens) => pc = "ValueError"

(* the same for the TimeConfigs that lack a start date or an end date      *)
C28_UnknownTokenFailsWithoutWindow ==
    (/\ pc # "TimeConfig"
     /\ timeconfig.date_range \notin DateRangeTokens
     /\ (parse_opt(timeconfig.start_date) = Return(None)
            \/ parse_opt(timeconfig.end_date) = Return(None)))
        => pc = "ValueError"

----------------------------------------------------------------------------
(* the stage of the orchestrator to which a call belongs: 1 Ingest,        *)
(* 2 Clean, 3 Filter(time), 4 Filter(columns), 5 Subgroup,                 *)
(* 6 SelectVariant(n), 7 ComputeLimits, 8 ComputeCapability,               *)
(* 9 ClassifyOOC/OOS, 10 EvaluateNelsonRules, 11 Report/Render             *)
StageOf(call) ==
    CASE call = "_load_data" -> 1
      [] call = "_clean_and_convert_columns" -> 2
      [] call = "_filter_by_date" -> 3
      [] call = "_filter_by_column_entry" -> 4
      [] call = "_group_data" -> 5
      [] call = "_calculate_metrics" -> 6
      [] call \in {"calculate_control_limits_i", "calculate_control_limits_mr",
                   "calculate_control_limits_x_s", "calculate_control_limits_r",
                   "calculate_control_limits_s"} -> 7
      [] call = "calculate_cpk" -> 8
      [] call \in {"check_ooc", "nelson_1 OOS"} -> 9
      [] call \in {"_check_nelson", "nelson_1", "nelson_2", "nelson_3", "nelson_4",
                   "nelson_5", "nelson_6", "nelson_7", "nelson_8"} -> 10
      [] call \in {"_generate_report", "_plot_charts"} -> 11

(* C26: the calls of a run are made stage by stage in the order of the     *)
(* list, and a stage is entered only after the stage listed before it      *)
C26_StageOrder ==
    /\ \A i, j \in 1..Len(calls) : i < j => StageOf(calls[i]) <= StageOf(calls[j])
    /\ \A j \in 1..Len(calls) :
          StageOf(calls[j]) > 1 =>
              \E i \in 1..(j - 1) : StageOf(calls[i]) \in {StageOf(calls[j]) - 1, StageOf(calls[j])}

(* the stages before the limits are entered in the order of the list       *)
C26_OrderUpToLimits ==
    \A i, j \in 1..Len(calls) :
        (i < j /\ StageOf(calls[j]) <= 7) => StageOf(calls[i]) <= StageOf(calls[j])

----------------------------------------------------------------------------
(* the arguments with which the function fn has been called, in the order  *)
(* of the calls                                                            *)
ArgumentsOf(fn) ==
    LET at == SelectSeq([i \in 1..Len(calls) |-> i],
                        LAMBDA i : i < Len(calls) /\ calls[i] = fn)
    IN  [k \in 1..Len(at) |-> calls[at[k] + 1]]

IsPrefix(s, t) == Len(s) <= Len(t) /\ \A i \in 1..Len(s) : s[i] = t[i]

PrintedTimes(line) == Cardinality({i \in 1..Len(stdout) : stdout[i] = line})

(* C21: the configurations are loaded once each in the order of the list   *)
(* and the loaded ones are run once each in that order; no exception       *)
(* leaves main; when main returns every configuration has been attempted   *)
(* and every failure has its line in the output                            *)
C21_BatchTolerance ==
    /\ pc \in {"main", "for file_path", "for config_item", "exit 0"}
    /\ IsPrefix(ArgumentsOf("load_json_config"), input_file_paths)
    /\ IsPrefix(ArgumentsOf("SpcDataProcessor"),
                [i \in 1..Len(config_files_to_process) |-> config_files_to_process[i].filename])
    /\ pc = "exit 0" =>
          /\ Len(ArgumentsOf("load_json_config")) = Len(input_file_paths)
          /\ Len(ArgumentsOf("SpcDataProcessor")) = Len(config_files_to_process)
          /\ PrintedTimes("!!! CRITICAL FAILURE: Could not load or validate file")
                = Len(input_file_paths) - Len(config_files_to_process)

(* the same for the batches without a configuration whose output directory *)
(* cannot be made                                                          *)
C21_ToleranceOfCaughtFailures ==
    (\A i \in 1..Len(input_file_paths) : input_file_paths[i] # "spc_setup_long_name")
        => C21_BatchTolerance

(* C22: when main has returned after a batch of two loaded configurations, *)
(* each of them has its report in its own output directory                 *)
C22_ReportPerConfiguration ==
    (pc = "exit 0" /\ Len(config_files_to_process) = 2) =>
        /\ config_files_to_process[1].filename # config_files_to_process[2].filename
        /\ \A i \in 1..2 :
              \E f \in files :
                  /\ f.kind = "report"
                  /\ f.name = <<output_dir_name(config_files_to_process[i].filename),
                                "spc_report.txt">>

====
